---- MODULE Spec2Model ----
(***************************************************************************)
(* Blocking-state engine of the RFC production pipeline:                   *)
(*   rpc/lifecycle/blocked_assignments.py  (gate evaluator + reconciler)   *)
(*   rpc/models.py                         (tables and their constraints)  *)
(*   rpc/lifecycle/notifications.py        (poller of the history logs)    *)
(* The relational store is modelled as one variable per table.  A          *)
(* reconcile call is a process that takes the document's row lock,         *)
(* evaluates the gates, and commits or rolls back one transaction.         *)
(***************************************************************************)
EXTENDS Naturals, Integers, Sequences, FiniteSets, TLC

VARIABLES
    assignments,      \* rpc_assignment rows, in pk order (pk = index)
    labels,           \* RfcToBe.labels: document -> set of label slugs
    actionholders,    \* rpc_actionholder rows: [target_rfctobe, completed]
    finalapprovals,   \* rpc_finalapproval rows: [rfc_to_be, approved]
    relateddocs,      \* rpc_rpcrelateddocument rows
    blockingreasons,  \* rpc_rfctobeblockingreason rows
    catalog,          \* rpc_blockingreason rows (the slugs present)
    disposition,      \* RfcToBe.disposition_id per document
    clock,            \* timezone.now(), as a logical clock
    edits,            \* number of assignments editors have created or completed
    lock,             \* row lock of each RfcToBe row: the holder, or Null
    pc,               \* position of each reconcile call
    wrfc,             \* the document a call reconciles
    wreasons,         \* block_reasons computed by the call
    wbefore,          \* blocked_before computed by the call
    wret,             \* what the call returned: "True", "False", "error"
    wkind,            \* what the call did: "in", "out", "none", "error"
    wfresh,           \* nothing has changed the data since the call evaluated
    quiet,            \* the document whose reconcile returned last, nothing having changed
                      \* the data during that call's transaction or since
    overlap,          \* the call waited for the row while another call moved its
                      \* document into blocked, and nothing else changed the data
    evalResult,       \* result of the last get_block_reasons call
    batchState,       \* position of update_blocked_assignments_for_in_progress_rfcs
    batchTodo,        \* documents the batch loop has still to visit, in loop order
    batchSeen,        \* documents the batch loop has called reconcile for, in order
    taskrun,          \* the committed rpc_taskrun row of the poller: <<>> or <<row>>
    trlock,           \* the poll holding the lock of that row or its uncommitted
                      \* insert, or Null
    history,          \* records of the history logs
    now,              \* timezone.now() of the poller, in units of 30 seconds
    sinkurl,          \* TRIGGER_RED_PRECOMPUTE_URL is configured
    sent,             \* payloads the sink has accepted, in order
    ppc,              \* position of each poll
    pcct,             \* current_check_time of each poll
    ptask,            \* task_run of each poll, the in-memory row
    pfound,           \* last_run_at of the row the poll got or created: <<>> or <<t>>
    pqueue,           \* queue_rfcs of each poll
    ppath,            \* the path each poll took
    subseries,        \* rpc_subseriesmember rows: [rfc_to_be, type, number]
    rfc_index,        \* children of the rfc-index element, in document order
    indexstate        \* "idle", or how load_bcp_xml_index_entries ended

vars == <<assignments, labels, actionholders, finalapprovals, relateddocs,
          blockingreasons, catalog, disposition, clock, edits, lock, pc, wrfc,
          wreasons, wbefore, wret, wkind, wfresh, quiet, overlap, evalResult,
          batchState, batchTodo, batchSeen, taskrun, trlock, history, now,
          sinkurl, sent, ppc, pcct, ptask, pfound, pqueue, ppath,
          subseries, rfc_index, indexstate>>

dbvars == <<assignments, labels, actionholders, finalapprovals, relateddocs,
            blockingreasons, catalog, disposition, clock, edits>>

callvars ==
    <<lock, pc, wrfc, wreasons, wbefore, wret, wkind, wfresh, quiet, overlap>>

batchvars == <<batchState, batchTodo, batchSeen>>

workervars == <<ppc, pcct, ptask, pfound, pqueue, ppath>>

pollvars == <<taskrun, trlock, history, now, sinkurl, sent, workervars>>

indexvars == <<subseries, rfc_index, indexstate>>

----------------------------------------------------------------------------
(* Bounds of the model *)

MaxLabels == 2

MaxClock == 5

MaxEdits == 1

MaxNow == 4

MaxEntries == 2

\* highest subseries number
MaxNumber == 3

\* rows of rpc_subseriesmember
MaxMembers == 3

----------------------------------------------------------------------------
(* Names *)

Null == "null"

Docs == {"d1", "d2"}

Persons == {"A", "B"}

Workers == {"w1", "w2"}

ROLE_BLOCKED == "blocked"

\* the roles the five gates look at, in gate order
GateRoleSeq ==
    <<"ref_checker", "formatting", "first_editor", "second_editor",
      "final_review_editor", "publisher">>

GateRoles == {GateRoleSeq[i] : i \in DOMAIN GateRoleSeq}

Roles == GateRoles \cup {ROLE_BLOCKED}

ASSIGNED == "assigned"

IN_PROGRESS == "in_progress"

DONE == "done"

WITHDRAWN == "withdrawn"

CLOSED_FOR_HOLD == "closed_for_hold"

AssignmentStates == {ASSIGNED, IN_PROGRESS, DONE, WITHDRAWN, CLOSED_FOR_HOLD}

ASSIGNMENT_INACTIVE_STATES == {DONE, WITHDRAWN, CLOSED_FOR_HOLD}

LabelSlugs ==
    {"Stream Hold", "ExtRef Hold", "Author Input Required", "IANA Hold",
     "Tools Issue"}

ACTION_HOLDER_ACTIVE == "actionholder_active"

LABEL_STREAM_HOLD == "label_stream_hold"

LABEL_EXTREF_HOLD == "label_extref_hold"

LABEL_AUTHOR_INPUT_REQUIRED == "label_author_input_required"

LABEL_IANA_HOLD == "label_iana_hold"

REFERENCE_NOT_RECEIVED == "ref_not_received"

REFERENCE_NOT_RECEIVED_2G == "ref_not_received_2g"

REFERENCE_NOT_RECEIVED_3G == "ref_not_received_3g"

REFQUEUE_FIRST_EDIT_INCOMPLETE == "refqueue_first_edit_incomplete"

REFQUEUE_SECOND_EDIT_INCOMPLETE == "refqueue_second_edit_incomplete"

REFQUEUE_PUBLISH_INCOMPLETE == "refqueue_publish_incomplete"

FINAL_APPROVAL_PENDING == "final_approval_pending"

TOOLS_ISSUE == "tools_issue"

BlockingReasonSlugs ==
    {ACTION_HOLDER_ACTIVE, LABEL_STREAM_HOLD, LABEL_EXTREF_HOLD,
     LABEL_AUTHOR_INPUT_REQUIRED, LABEL_IANA_HOLD, REFERENCE_NOT_RECEIVED,
     REFERENCE_NOT_RECEIVED_2G, REFERENCE_NOT_RECEIVED_3G,
     REFQUEUE_FIRST_EDIT_INCOMPLETE, REFQUEUE_SECOND_EDIT_INCOMPLETE,
     REFQUEUE_PUBLISH_INCOMPLETE, FINAL_APPROVAL_PENDING, TOOLS_ISSUE}

REFQUEUE_RELATIONSHIP_SLUG == "refqueue"

NOT_RECEIVED_RELATIONSHIP_SLUG == "not-received"

NOT_RECEIVED_2G_RELATIONSHIP_SLUG == "not-received-2g"

NOT_RECEIVED_3G_RELATIONSHIP_SLUG == "not-received-3g"

NOT_RECEIVED_RELATIONSHIP_SLUGS ==
    {NOT_RECEIVED_RELATIONSHIP_SLUG, NOT_RECEIVED_2G_RELATIONSHIP_SLUG,
     NOT_RECEIVED_3G_RELATIONSHIP_SLUG}

----------------------------------------------------------------------------
(* Rows and querysets *)

\* An rpc_assignment row.  hist is the history_date of its latest
\* historical record, i.e. the time of its last save.
Assignment(d, p, r, s, c, t) ==
    [rfc |-> d, person |-> p, role |-> r, state |-> s, comment |-> c, hist |-> t]

\* AssignmentQuerySet.active(): pks of the rows of asg that are not inactive
active(asg) ==
    {i \in DOMAIN asg : asg[i].state \notin ASSIGNMENT_INACTIVE_STATES}

\* rfc.assignment_set: pks of the rows of asg that belong to document d
assignment_set(asg, d) == {i \in DOMAIN asg : asg[i].rfc = d}

\* An rpc_rpcrelateddocument row; exactly one of the two targets is set.
RelatedDocument(s, rel, rtb, doc) ==
    [source |-> s, relationship |-> rel, target_rfctobe |-> rtb,
     target_document |-> doc]

\* rfc.rpcrelateddocument_set.filter(relationship__slug=slug)
related(d, slug) ==
    {r \in relateddocs : r.source = d /\ r.relationship = slug}

\* ActionHolderQuerySet.active() on rfc.actionholder_set, .exists()
actionholder_active(d) ==
    \E h \in actionholders : h.target_rfctobe = d /\ ~h.completed

\* FinalApprovalQuerySet.active() on rfc.finalapproval_set, .exists()
finalapproval_active(d) ==
    \E f \in finalapprovals : f.rfc_to_be = d /\ ~f.approved

----------------------------------------------------------------------------
(* Activity provider (rpc/lifecycle/activities.py)                         *)

\* the editorial stage of a role: the workflow's ordering of the roles
ActivityStage(r) ==
    CASE r \in {"ref_checker", "formatting"} -> 1
      [] r = "first_editor" -> 2
      [] r = "second_editor" -> 3
      [] r = "final_review_editor" -> 4
      [] r = "publisher" -> 5

\* roles of the workflow that document d has not completed
incomplete_activities(asg, d) ==
    {r \in GateRoles :
        ~\E i \in assignment_set(asg, d) : asg[i].role = r /\ asg[i].state = DONE}

\* roles not yet reachable because an earlier role is incomplete
pending_activities(asg, d) ==
    LET incomplete == incomplete_activities(asg, d)
    IN  {r \in incomplete : \E q \in incomplete : ActivityStage(q) < ActivityStage(r)}

----------------------------------------------------------------------------
(* Gate evaluator *)

\* the role check with active() left out: an assignment in any state counts
_is_active_or_pending_assignment_AnyState(asg, d, slugs) ==
    \/ \E i \in assignment_set(asg, d) : asg[i].role \in slugs
    \/ pending_activities(asg, d) \cap slugs # {}

_is_active_or_pending_assignment(asg, d, slugs) ==
    \/ \E i \in assignment_set(asg, d) \cap active(asg) : asg[i].role \in slugs
    \/ pending_activities(asg, d) \cap slugs # {}

\* ref.target_rfctobe.<attr> on a row whose target_rfctobe is NULL raises
refqueue_raises(d) ==
    \E r \in related(d, REFQUEUE_RELATIONSHIP_SLUG) : r.target_rfctobe = Null

\* targets of the refqueue rows of d that are documents-to-be
refqueue_targets(d) ==
    {r.target_rfctobe : r \in related(d, REFQUEUE_RELATIONSHIP_SLUG)} \ {Null}

\* gate 1 with the label checks of gate 3
Gate1Reasons_LabelsOfGate3(d) ==
    (IF actionholder_active(d) THEN {ACTION_HOLDER_ACTIVE} ELSE {})
    \cup (IF "Stream Hold" \in labels[d] THEN {LABEL_STREAM_HOLD} ELSE {})
    \cup (IF "IANA Hold" \in labels[d] THEN {LABEL_IANA_HOLD} ELSE {})
    \cup (IF related(d, NOT_RECEIVED_RELATIONSHIP_SLUG) # {}
          THEN {REFERENCE_NOT_RECEIVED}
          ELSE IF related(d, NOT_RECEIVED_2G_RELATIONSHIP_SLUG) # {}
          THEN {REFERENCE_NOT_RECEIVED_2G}
          ELSE IF related(d, NOT_RECEIVED_3G_RELATIONSHIP_SLUG) # {}
          THEN {REFERENCE_NOT_RECEIVED_3G}
          ELSE {})

\* gate 1 reporting every not-received tier the document has
Gate1Reasons_AllTiers(d) ==
    (IF actionholder_active(d) THEN {ACTION_HOLDER_ACTIVE} ELSE {})
    \cup (IF "Stream Hold" \in labels[d] THEN {LABEL_STREAM_HOLD} ELSE {})
    \cup (IF "ExtRef Hold" \in labels[d] THEN {LABEL_EXTREF_HOLD} ELSE {})
    \cup (IF "Author Input Required" \in labels[d]
          THEN {LABEL_AUTHOR_INPUT_REQUIRED} ELSE {})
    \cup (IF related(d, NOT_RECEIVED_RELATIONSHIP_SLUG) # {}
          THEN {REFERENCE_NOT_RECEIVED} ELSE {})
    \cup (IF related(d, NOT_RECEIVED_2G_RELATIONSHIP_SLUG) # {}
          THEN {REFERENCE_NOT_RECEIVED_2G} ELSE {})
    \cup (IF related(d, NOT_RECEIVED_3G_RELATIONSHIP_SLUG) # {}
          THEN {REFERENCE_NOT_RECEIVED_3G} ELSE {})

Gate1Reasons(d) ==
    (IF actionholder_active(d) THEN {ACTION_HOLDER_ACTIVE} ELSE {})
    \cup (IF "Stream Hold" \in labels[d] THEN {LABEL_STREAM_HOLD} ELSE {})
    \cup (IF "ExtRef Hold" \in labels[d] THEN {LABEL_EXTREF_HOLD} ELSE {})
    \cup (IF "Author Input Required" \in labels[d]
          THEN {LABEL_AUTHOR_INPUT_REQUIRED} ELSE {})
    \cup (IF related(d, NOT_RECEIVED_RELATIONSHIP_SLUG) # {}
          THEN {REFERENCE_NOT_RECEIVED}
          ELSE IF related(d, NOT_RECEIVED_2G_RELATIONSHIP_SLUG) # {}
          THEN {REFERENCE_NOT_RECEIVED_2G}
          ELSE IF related(d, NOT_RECEIVED_3G_RELATIONSHIP_SLUG) # {}
          THEN {REFERENCE_NOT_RECEIVED_3G}
          ELSE {})

Gate2Reasons(d) ==
    (IF actionholder_active(d) THEN {ACTION_HOLDER_ACTIVE} ELSE {})
    \cup (IF "Stream Hold" \in labels[d] THEN {LABEL_STREAM_HOLD} ELSE {})
    \cup (IF "Author Input Required" \in labels[d]
          THEN {LABEL_AUTHOR_INPUT_REQUIRED} ELSE {})

Gate3Reasons(asg, d) ==
    (IF actionholder_active(d) THEN {ACTION_HOLDER_ACTIVE} ELSE {})
    \cup (IF "Stream Hold" \in labels[d] THEN {LABEL_STREAM_HOLD} ELSE {})
    \cup (IF "IANA Hold" \in labels[d] THEN {LABEL_IANA_HOLD} ELSE {})
    \cup (IF \E t \in refqueue_targets(d) :
                "first_editor" \in incomplete_activities(asg, t)
          THEN {REFQUEUE_FIRST_EDIT_INCOMPLETE} ELSE {})

Gate4Reasons(asg, d) ==
    (IF \E t \in refqueue_targets(d) :
                "second_editor" \in incomplete_activities(asg, t)
     THEN {REFQUEUE_SECOND_EDIT_INCOMPLETE} ELSE {})
    \cup (IF "Stream Hold" \in labels[d] THEN {LABEL_STREAM_HOLD} ELSE {})
    \cup (IF actionholder_active(d) THEN {ACTION_HOLDER_ACTIVE} ELSE {})

\* the target has a publisher assignment that is active or done
publisher_done_or_active(asg, t) ==
    \E i \in assignment_set(asg, t) :
        /\ asg[i].role = "publisher"
        /\ (i \in active(asg) \/ asg[i].state = DONE)

Gate5Reasons(asg, d) ==
    (IF "Stream Hold" \in labels[d] THEN {LABEL_STREAM_HOLD} ELSE {})
    \cup (IF "IANA Hold" \in labels[d] THEN {LABEL_IANA_HOLD} ELSE {})
    \cup (IF "Tools Issue" \in labels[d] THEN {TOOLS_ISSUE} ELSE {})
    \cup (IF \E t \in refqueue_targets(d) : ~publisher_done_or_active(asg, t)
          THEN {REFQUEUE_PUBLISH_INCOMPLETE} ELSE {})
    \cup (IF finalapproval_active(d) THEN {FINAL_APPROVAL_PENDING} ELSE {})

Returned(rs) == [raised |-> FALSE, reasons |-> rs]

Raised == [raised |-> TRUE, reasons |-> {}]

\* get_block_reasons with the "return reasons" of every gate lost: each
\* gate that matches adds its reasons
get_block_reasons_NoReturn(asg, d) ==
    LET m1 == _is_active_or_pending_assignment(asg, d, {"ref_checker", "formatting"})
        m2 == _is_active_or_pending_assignment(asg, d, {"first_editor"})
        m3 == _is_active_or_pending_assignment(asg, d, {"second_editor"})
        m4 == _is_active_or_pending_assignment(asg, d, {"final_review_editor"})
        m5 == _is_active_or_pending_assignment(asg, d, {"publisher"})
    IN  IF (m3 \/ m4 \/ m5) /\ refqueue_raises(d) THEN Raised
        ELSE Returned((IF m1 THEN Gate1Reasons(d) ELSE {})
                      \cup (IF m2 THEN Gate2Reasons(d) ELSE {})
                      \cup (IF m3 THEN Gate3Reasons(asg, d) ELSE {})
                      \cup (IF m4 THEN Gate4Reasons(asg, d) ELSE {})
                      \cup (IF m5 THEN Gate5Reasons(asg, d) ELSE {}))

\* get_block_reasons with the publisher gate not guarded by its role check
get_block_reasons_Gate5Unguarded(asg, d) ==
    IF _is_active_or_pending_assignment(asg, d, {"ref_checker", "formatting"})
    THEN Returned(Gate1Reasons(d))
    ELSE IF _is_active_or_pending_assignment(asg, d, {"first_editor"})
    THEN Returned(Gate2Reasons(d))
    ELSE IF _is_active_or_pending_assignment(asg, d, {"second_editor"})
    THEN IF refqueue_raises(d) THEN Raised ELSE Returned(Gate3Reasons(asg, d))
    ELSE IF _is_active_or_pending_assignment(asg, d, {"final_review_editor"})
    THEN IF refqueue_raises(d) THEN Raised ELSE Returned(Gate4Reasons(asg, d))
    ELSE IF refqueue_raises(d) THEN Raised ELSE Returned(Gate5Reasons(asg, d))

\* get_block_reasons(rfc): the reason set, or an exception
get_block_reasons(asg, d) ==
    IF _is_active_or_pending_assignment(asg, d, {"ref_checker", "formatting"})
    THEN Returned(Gate1Reasons(d))
    ELSE IF _is_active_or_pending_assignment(asg, d, {"first_editor"})
    THEN Returned(Gate2Reasons(d))
    ELSE IF _is_active_or_pending_assignment(asg, d, {"second_editor"})
    THEN IF refqueue_raises(d) THEN Raised ELSE Returned(Gate3Reasons(asg, d))
    ELSE IF _is_active_or_pending_assignment(asg, d, {"final_review_editor"})
    THEN IF refqueue_raises(d) THEN Raised ELSE Returned(Gate4Reasons(asg, d))
    ELSE IF _is_active_or_pending_assignment(asg, d, {"publisher"})
    THEN IF refqueue_raises(d) THEN Raised ELSE Returned(Gate5Reasons(asg, d))
    ELSE Returned({})

----------------------------------------------------------------------------
(* Transactions *)

\* The tables a reconcile transaction writes, and whether it is still good.
Tx(asg, brs, clk) ==
    [ok |-> TRUE, assignments |-> asg, blockingreasons |-> brs, clock |-> clk]

\* an exception leaves the code that runs in the transaction
Fail(tx) == [tx EXCEPT !.ok = FALSE]

\* Assignment.save(update_fields=...): row i takes the values of row, and
\* simple_history records the save at the current time
save(tx, i, row) ==
    [tx EXCEPT !.clock = tx.clock + 1,
               !.assignments[i] = [row EXCEPT !.hist = tx.clock + 1]]

\* unique_active_assignment_per_person_rfc_role: a new active row for a
\* person collides with an active row of the same person, document and
\* role; rows whose person is NULL never collide
violates_unique_active_assignment(asg, d, r, p, s) ==
    /\ s \notin ASSIGNMENT_INACTIVE_STATES
    /\ p # Null
    /\ \E i \in assignment_set(asg, d) \cap active(asg) :
            asg[i].role = r /\ asg[i].person = p

\* update_or_create that never looks for the row and always inserts
update_or_create_AlwaysCreate(tx, d, r, p, s, c) ==
    IF ~tx.ok THEN tx
    ELSE IF violates_unique_active_assignment(tx.assignments, d, r, p, s)
    THEN Fail(tx)
    ELSE [tx EXCEPT !.clock = tx.clock + 1,
                    !.assignments =
                        Append(tx.assignments,
                               Assignment(d, p, r, s, c, tx.clock + 1))]

\* Assignment.objects.update_or_create(rfc_to_be=d, role=r, person=p,
\* state=s, defaults={"comment": c})
update_or_create(tx, d, r, p, s, c) ==
    LET asg == tx.assignments
        found == {i \in assignment_set(asg, d) :
                     asg[i].role = r /\ asg[i].person = p /\ asg[i].state = s}
    IN  IF ~tx.ok THEN tx
        ELSE IF Cardinality(found) > 1 THEN Fail(tx)
        ELSE IF Cardinality(found) = 1
        THEN LET i == CHOOSE j \in found : TRUE
             IN  save(tx, i, [asg[i] EXCEPT !.comment = c])
        ELSE IF violates_unique_active_assignment(asg, d, r, p, s) THEN Fail(tx)
        ELSE [tx EXCEPT !.clock = tx.clock + 1,
                        !.assignments =
                            Append(asg, Assignment(d, p, r, s, c, tx.clock + 1))]

\* Assignment.objects.create(rfc_to_be=d, role=r, state=s, comment=c)
create_assignment(tx, d, r, p, s, c) ==
    IF ~tx.ok THEN tx
    ELSE IF violates_unique_active_assignment(tx.assignments, d, r, p, s)
    THEN Fail(tx)
    ELSE [tx EXCEPT !.clock = tx.clock + 1,
                    !.assignments =
                        Append(tx.assignments,
                               Assignment(d, p, r, s, c, tx.clock + 1))]

\* the resolved column: NULL, or the time of resolution
Unresolved == <<>>

ResolvedAt(t) == <<t>>

\* An rpc_rfctobeblockingreason row.
BlockingReasonRow(d, slug, since, res) ==
    [rfc |-> d, reason |-> slug, since_when |-> since, resolved |-> res]

\* create_blocking_reason without unique_active_blocking_reason_per_rfc
create_blocking_reason_NoConstraint(tx, cat, d, slug) ==
    IF ~tx.ok THEN tx
    ELSE IF slug \notin cat THEN Fail(tx)
    ELSE [tx EXCEPT !.blockingreasons =
                        @ \cup {BlockingReasonRow(d, slug, tx.clock, Unresolved)}]

\* create_blocking_reason that re-opens a resolved record of the reason
\* when the document has one, instead of inserting a row
create_blocking_reason_Reopen(tx, cat, d, slug) ==
    LET old == {b \in tx.blockingreasons :
                    b.rfc = d /\ b.reason = slug /\ b.resolved # Unresolved}
    IN  IF ~tx.ok THEN tx
        ELSE IF slug \notin cat THEN Fail(tx)
        ELSE IF \E b \in tx.blockingreasons :
                    b.rfc = d /\ b.reason = slug /\ b.resolved = Unresolved
        THEN Fail(tx)
        ELSE IF old # {}
        THEN LET one == CHOOSE b \in old : TRUE
             IN  [tx EXCEPT !.blockingreasons =
                    (@ \ {one}) \cup {[one EXCEPT !.resolved = Unresolved]}]
        ELSE [tx EXCEPT !.blockingreasons =
                        @ \cup {BlockingReasonRow(d, slug, tx.clock, Unresolved)}]

\* BlockingReason.objects.get(slug=slug) followed by
\* RfcToBeBlockingReason.objects.create(rfc_to_be=d, reason=...), under
\* unique_active_blocking_reason_per_rfc
create_blocking_reason(tx, cat, d, slug) ==
    IF ~tx.ok THEN tx
    ELSE IF slug \notin cat THEN Fail(tx)
    ELSE IF \E b \in tx.blockingreasons :
                b.rfc = d /\ b.reason = slug /\ b.resolved = Unresolved
    THEN Fail(tx)
    ELSE [tx EXCEPT !.blockingreasons =
                        @ \cup {BlockingReasonRow(d, slug, tx.clock, Unresolved)}]

----------------------------------------------------------------------------
(* Blocking-state reconciler *)

_has_active_blocked_assignment(asg, d) ==
    \E i \in assignment_set(asg, d) \cap active(asg) : asg[i].role = ROLE_BLOCKED

\* the active non-blocked assignments of every document
active_assignment_qs_AllDocuments(asg, d) ==
    {i \in active(asg) : asg[i].role # ROLE_BLOCKED}

\* rfc.assignment_set.exclude(role__slug="blocked").active()
active_assignment_qs(asg, d) ==
    {i \in assignment_set(asg, d) \cap active(asg) : asg[i].role # ROLE_BLOCKED}

\* the orders in which a queryset without order_by may yield the rows of S
RowOrders(S) ==
    {o \in [1..Cardinality(S) -> S] : \A i, j \in DOMAIN o : i # j => o[i] # o[j]}

\* close_for_hold with the save of the closed row lost
RECURSIVE close_for_hold_NotSaved(_, _, _)
close_for_hold_NotSaved(tx, d, order) ==
    IF order = <<>> \/ ~tx.ok THEN tx
    ELSE LET i == Head(order)
             held == update_or_create(tx, d, ROLE_BLOCKED,
                                      tx.assignments[i].person, IN_PROGRESS,
                                      "blocked")
         IN  close_for_hold_NotSaved(held, d, Tail(order))

\* the loop of _create_blocked_assignments over the active assignments:
\* close the row, then create-or-update the person's blocked assignment
RECURSIVE close_for_hold(_, _, _)
close_for_hold(tx, d, order) ==
    IF order = <<>> \/ ~tx.ok THEN tx
    ELSE LET i == Head(order)
             closed == save(tx, i, [tx.assignments[i] EXCEPT
                                        !.state = CLOSED_FOR_HOLD,
                                        !.comment = "closed"])
             held == update_or_create(closed, d, ROLE_BLOCKED,
                                      tx.assignments[i].person, IN_PROGRESS,
                                      "blocked")
         IN  close_for_hold(held, d, Tail(order))

\* the loop over the reasons left out: no record is stored
store_blocking_reasons_Skipped(tx, cat, d, reasons) == tx

\* the loop of _create_blocked_assignments over the reasons
RECURSIVE store_blocking_reasons(_, _, _, _)
store_blocking_reasons(tx, cat, d, reasons) ==
    IF reasons = {} \/ ~tx.ok THEN tx
    ELSE LET slug == CHOOSE r \in reasons : TRUE
         IN  store_blocking_reasons(create_blocking_reason(tx, cat, d, slug),
                                    cat, d, reasons \ {slug})

\* _create_blocked_assignments that never looks at the active assignments
\* and always creates the blocked assignment without a person
_create_blocked_assignments_Ownerless(tx, cat, d, reasons, order) ==
    store_blocking_reasons(
        create_assignment(tx, d, ROLE_BLOCKED, Null, IN_PROGRESS, "blocked"),
        cat, d, reasons)

\* _create_blocked_assignments(rfc, reasons), the active assignments being
\* yielded in the given order
_create_blocked_assignments(tx, cat, d, reasons, order) ==
    LET held ==
            IF order # <<>>
            THEN close_for_hold(tx, d, order)
            ELSE create_assignment(tx, d, ROLE_BLOCKED, Null, IN_PROGRESS,
                                   "blocked")
    IN  store_blocking_reasons(held, cat, d, reasons)

\* the closed_for_hold assignment of person p with the oldest history_date
latest_closed_for_hold_Oldest(asg, d, p) ==
    LET qs == {i \in assignment_set(asg, d) :
                  asg[i].state = CLOSED_FOR_HOLD /\ asg[i].person = p}
    IN  IF qs = {} THEN 0
        ELSE CHOOSE i \in qs : \A j \in qs : asg[i].hist <= asg[j].hist

\* pk of the closed_for_hold assignment of person p with the most recent
\* history_date; 0 (no pk) when the person has none
latest_closed_for_hold(asg, d, p) ==
    LET qs == {i \in assignment_set(asg, d) :
                  asg[i].state = CLOSED_FOR_HOLD /\ asg[i].person = p}
    IN  IF qs = {} THEN 0
        ELSE CHOOSE i \in qs : \A j \in qs : asg[j].hist <= asg[i].hist

\* the loop of _close_blocked_assignments over the active blocked
\* assignments, which order_by("-pk") yields from the highest pk down
RECURSIVE release_blocked(_, _, _)
release_blocked(tx, d, blocked) ==
    IF blocked = {} \/ ~tx.ok THEN tx
    ELSE LET a == CHOOSE i \in blocked : \A j \in blocked : j <= i
             finished == save(tx, a, [tx.assignments[a] EXCEPT !.state = DONE])
             latest == latest_closed_for_hold(finished.assignments, d,
                                              tx.assignments[a].person)
             restored ==
                IF latest = 0 THEN finished
                ELSE update_or_create(finished, d,
                                      finished.assignments[latest].role,
                                      finished.assignments[latest].person,
                                      ASSIGNED, "recreated")
         IN  release_blocked(restored, d, blocked \ {a})

\* resolve_blocking_reasons that resolves one record only
resolve_blocking_reasons_OnlyOne(tx, d) ==
    LET open == {b \in tx.blockingreasons : b.rfc = d /\ b.resolved = Unresolved}
    IN  IF ~tx.ok \/ open = {} THEN tx
        ELSE LET one == CHOOSE b \in open : TRUE
             IN  [tx EXCEPT !.blockingreasons =
                    (@ \ {one}) \cup {[one EXCEPT !.resolved = ResolvedAt(tx.clock)]}]

\* RfcToBeBlockingReason.objects.filter(rfc_to_be=d, resolved__isnull=True)
\*     .update(resolved=timezone.now())
resolve_blocking_reasons(tx, d) ==
    IF ~tx.ok THEN tx
    ELSE [tx EXCEPT !.blockingreasons =
            {IF b.rfc = d /\ b.resolved = Unresolved
             THEN [b EXCEPT !.resolved = ResolvedAt(tx.clock)] ELSE b : b \in @}]

_close_blocked_assignments(tx, d) ==
    LET blocked == {i \in assignment_set(tx.assignments, d) \cap active(tx.assignments) :
                       tx.assignments[i].role = ROLE_BLOCKED}
    IN  IF blocked = {} THEN tx
        ELSE resolve_blocking_reasons(release_blocked(tx, d, blocked), d)

\* atomic without the rollback: the writes made before the exception stay
atomic_NoRollback(before, after) == after

\* transaction.atomic(): what is persisted when the block is left; an
\* exception rolls every write of the transaction back
atomic(before, after) ==
    IF after.ok THEN after ELSE Fail(before)

\* the transition apply_blocked_assignment_for_rfc makes once it has
\* computed block_reasons and blocked_before
Transition(reasons, blocked_before) ==
    IF reasons # {} /\ ~blocked_before THEN "in"
    ELSE IF reasons = {} /\ blocked_before THEN "out"
    ELSE "none"

\* the body of apply_blocked_assignment_for_rfc after the evaluation
apply_transition(tx, cat, d, reasons, blocked_before, order) ==
    CASE Transition(reasons, blocked_before) = "in" ->
            atomic(tx, _create_blocked_assignments(tx, cat, d, reasons, order))
      [] Transition(reasons, blocked_before) = "out" ->
            atomic(tx, _close_blocked_assignments(tx, d))
      [] OTHER -> tx

\* a return value that does not tell a transition from none
ReturnValue_AlwaysTrue(kind, ok) ==
    IF ~ok THEN "error" ELSE "True"

\* the value apply_blocked_assignment_for_rfc returns, "error" when it
\* raises RuntimeError
ReturnValue(kind, ok) ==
    IF ~ok THEN "error" ELSE IF kind = "none" THEN "False" ELSE "True"

----------------------------------------------------------------------------
(* Reconcile calls: apply_blocked_assignment_for_rfc as a process *)

\* a lock on the whole table: the call waits for every document's lock
row_lock_free_TableLock(d) == \A e \in Docs : lock[e] = Null

\* select_for_update() returns once no other transaction holds the row
row_lock_free(d) == lock[d] = Null

\* the labels editors put on and take off each document
SpecLabels(d) ==
    IF d = "d1" THEN {"Stream Hold", "Author Input Required"} ELSE {}

\* the assignments editors create: document, person, role, state
SpecAssignChoices ==
    {<<"d1", "A", "first_editor", IN_PROGRESS>>,
     <<"d1", "A", "second_editor", ASSIGNED>>,
     <<"d1", "B", "first_editor", ASSIGNED>>,
     <<"d1", Null, "first_editor", IN_PROGRESS>>,
     <<"d2", "B", "first_editor", IN_PROGRESS>>}

IdleCalls ==
    /\ lock = [d \in Docs |-> Null]
    /\ pc = [w \in Workers |-> "idle"]
    /\ wrfc = [w \in Workers |-> Null]
    /\ wreasons = [w \in Workers |-> {}]
    /\ wbefore = [w \in Workers |-> FALSE]
    /\ wret = [w \in Workers |-> Null]
    /\ wkind = [w \in Workers |-> Null]
    /\ wfresh = [w \in Workers |-> FALSE]
    /\ quiet = Null
    /\ overlap = [w \in Workers |-> FALSE]

\* get_block_reasons has not been called on its own
NoEval == evalResult = [doc |-> Null, raised |-> FALSE, reasons |-> {}]

NoBatch ==
    /\ batchState = "idle"
    /\ batchTodo = <<>>
    /\ batchSeen = <<>>

\* no subseries member, and rfc-index.xml is not being built
NoIndex ==
    /\ subseries = {}
    /\ rfc_index = <<>>
    /\ indexstate = "idle"

\* a TaskRun row
TaskRun(last, running) == [last_run_at |-> last, is_running |-> running]

\* the poller has not run
NoPoll ==
    /\ taskrun = <<>>
    /\ trlock = Null
    /\ history = {}
    /\ now = 0
    /\ sinkurl = FALSE
    /\ sent = <<>>
    /\ ppc = [w \in Workers |-> "idle"]
    /\ pcct = [w \in Workers |-> 0]
    /\ ptask = [w \in Workers |-> TaskRun(0, FALSE)]
    /\ pfound = [w \in Workers |-> <<>>]
    /\ pqueue = [w \in Workers |-> {}]
    /\ ppath = [w \in Workers |-> Null]

\* a row saved before the run starts
Row(d, p, r, s) == Assignment(d, p, r, s, "", 0)

\* every role of the workflow completed by person p on document d
AllDone(d, p) == [i \in DOMAIN GateRoleSeq |-> Row(d, p, GateRoleSeq[i], DONE)]

NoRelated == {}

RefqueueToRfcToBe == {RelatedDocument("d1", REFQUEUE_RELATIONSHIP_SLUG, "d2", Null)}

RefqueueToDraft == {RelatedDocument("d1", REFQUEUE_RELATIONSHIP_SLUG, Null, "draft")}

Start(asg, rel, cat) == [assignments |-> asg, relateddocs |-> rel, catalog |-> cat]

\* the databases a run starts from
SpecInitStates ==
    {Start(<<>>, NoRelated, BlockingReasonSlugs),
     Start(<<Row("d1", "A", "first_editor", IN_PROGRESS)>>,
           NoRelated, BlockingReasonSlugs),
     Start(<<Row("d1", "A", "first_editor", IN_PROGRESS)>>,
           NoRelated, BlockingReasonSlugs \ {LABEL_AUTHOR_INPUT_REQUIRED}),
     Start(<<Row("d1", "A", "first_editor", IN_PROGRESS),
             Row("d1", "A", "second_editor", ASSIGNED)>>,
           NoRelated, BlockingReasonSlugs),
     Start(<<Row("d1", "A", "first_editor", IN_PROGRESS),
             Row("d1", "B", "second_editor", IN_PROGRESS)>>,
           NoRelated, BlockingReasonSlugs),
     Start(AllDone("d1", "B") \o <<Row("d1", "A", "ref_checker", IN_PROGRESS)>>,
           NoRelated, BlockingReasonSlugs),
     Start(<<Row("d1", "A", "first_editor", IN_PROGRESS)>>,
           RefqueueToDraft, BlockingReasonSlugs),
     Start(<<Row("d1", "A", "first_editor", IN_PROGRESS),
             Row("d2", "B", "first_editor", IN_PROGRESS)>>,
           RefqueueToRfcToBe, BlockingReasonSlugs)}

InitDb ==
    /\ \E s \in SpecInitStates :
        /\ assignments = s.assignments
        /\ relateddocs = s.relateddocs
        /\ catalog = s.catalog
    /\ clock = 0
    /\ edits = 0
    /\ labels = [d \in Docs |-> {}]
    /\ actionholders = {}
    /\ finalapprovals = {}
    /\ blockingreasons = {}
    /\ disposition = [d \in Docs |-> "in_progress"]

Init ==
    /\ InitDb
    /\ IdleCalls
    /\ NoEval
    /\ NoBatch
    /\ NoIndex
    /\ NoPoll

\* an editor or the API changes the data: no document is quiet any more
Disturbed ==
    /\ quiet' = Null
    /\ wfresh' = [w \in Workers |-> FALSE]
    /\ overlap' = [w \in Workers |-> FALSE]
    /\ UNCHANGED <<lock, pc, wrfc, wreasons, wbefore, wret, wkind>>

AddLabel(d, l) ==
    /\ l \notin labels[d]
    /\ labels' = [labels EXCEPT ![d] = @ \cup {l}]
    /\ Disturbed
    /\ UNCHANGED <<assignments, actionholders, finalapprovals, relateddocs,
                   blockingreasons, catalog, disposition, clock, edits>>
    /\ UNCHANGED <<evalResult, batchvars, pollvars>>
    /\ UNCHANGED indexvars

RemoveLabel(d, l) ==
    /\ l \in labels[d]
    /\ labels' = [labels EXCEPT ![d] = @ \ {l}]
    /\ Disturbed
    /\ UNCHANGED <<assignments, actionholders, finalapprovals, relateddocs,
                   blockingreasons, catalog, disposition, clock, edits>>
    /\ UNCHANGED <<evalResult, batchvars, pollvars>>
    /\ UNCHANGED indexvars

\* an assignment is created through the API
Assign(d, p, r, s) ==
    /\ edits < MaxEdits
    /\ ~violates_unique_active_assignment(assignments, d, r, p, s)
    /\ assignments' = Append(assignments, Assignment(d, p, r, s, "", clock + 1))
    /\ clock' = clock + 1
    /\ edits' = edits + 1
    /\ Disturbed
    /\ UNCHANGED <<labels, actionholders, finalapprovals, relateddocs,
                   blockingreasons, catalog, disposition>>
    /\ UNCHANGED <<evalResult, batchvars, pollvars>>
    /\ UNCHANGED indexvars

\* an editor completes an assignment
Finish(i) ==
    /\ edits < MaxEdits
    /\ i \in active(assignments)
    /\ assignments[i].role # ROLE_BLOCKED
    /\ assignments' = [assignments EXCEPT ![i].state = DONE, ![i].hist = clock + 1]
    /\ clock' = clock + 1
    /\ edits' = edits + 1
    /\ Disturbed
    /\ UNCHANGED <<labels, actionholders, finalapprovals, relateddocs,
                   blockingreasons, catalog, disposition>>
    /\ UNCHANGED <<evalResult, batchvars, pollvars>>
    /\ UNCHANGED indexvars

\* an editor withdraws an assignment, whatever its role
Withdraw(i) ==
    /\ edits < MaxEdits
    /\ i \in active(assignments)
    /\ assignments' = [assignments EXCEPT ![i].state = WITHDRAWN,
                                          ![i].hist = clock + 1]
    /\ clock' = clock + 1
    /\ edits' = edits + 1
    /\ Disturbed
    /\ UNCHANGED <<labels, actionholders, finalapprovals, relateddocs,
                   blockingreasons, catalog, disposition>>
    /\ UNCHANGED <<evalResult, batchvars, pollvars>>
    /\ UNCHANGED indexvars

\* apply_blocked_assignment_for_rfc(rfc) is called; the results of the
\* worker's previous call are dropped
Call(w, d) ==
    /\ pc[w] \in {"idle", "done"}
    /\ clock < MaxClock
    /\ pc' = [pc EXCEPT ![w] = "waiting"]
    /\ wrfc' = [wrfc EXCEPT ![w] = d]
    /\ wret' = [wret EXCEPT ![w] = Null]
    /\ wkind' = [wkind EXCEPT ![w] = Null]
    /\ overlap' = [overlap EXCEPT ![w] = FALSE]
    /\ UNCHANGED <<lock, wreasons, wbefore, wfresh, quiet>>
    /\ UNCHANGED <<dbvars, evalResult, batchvars, pollvars>>
    /\ UNCHANGED indexvars

\* RfcToBe.objects.select_for_update().get(pk=rfc.pk), then block_reasons,
\* blocked_now and blocked_before are computed; an exception of the
\* evaluator ends the call and its transaction
LockAndEvaluate(w) ==
    /\ pc[w] = "waiting"
    /\ row_lock_free(wrfc[w])
    /\ LET d == wrfc[w]
           ev == get_block_reasons(assignments, d)
       IN  IF ev.raised
           THEN /\ pc' = [pc EXCEPT ![w] = "done"]
                /\ wret' = [wret EXCEPT ![w] = "error"]
                /\ wkind' = [wkind EXCEPT ![w] = "error"]
                /\ quiet' = Null
                /\ UNCHANGED <<lock, wreasons, wbefore, wfresh>>
           ELSE /\ pc' = [pc EXCEPT ![w] = "evaluated"]
                /\ lock' = [lock EXCEPT ![d] = w]
                /\ wreasons' = [wreasons EXCEPT ![w] = ev.reasons]
                /\ wbefore' = [wbefore EXCEPT ![w] =
                                  _has_active_blocked_assignment(assignments, d)]
                /\ wfresh' = [wfresh EXCEPT ![w] = TRUE]
                /\ UNCHANGED <<wret, wkind, quiet>>
    /\ UNCHANGED <<wrfc, overlap>>
    /\ UNCHANGED <<dbvars, evalResult, batchvars, pollvars>>
    /\ UNCHANGED indexvars

\* the transition is applied, the transaction ends and the lock is released
Mutate(w) ==
    /\ pc[w] = "evaluated"
    /\ LET d == wrfc[w]
           kind == Transition(wreasons[w], wbefore[w])
       IN  \E order \in RowOrders(active_assignment_qs(assignments, d)) :
            LET tx == apply_transition(Tx(assignments, blockingreasons, clock),
                                       catalog, d, wreasons[w], wbefore[w], order)
            IN  /\ assignments' = tx.assignments
                /\ blockingreasons' = tx.blockingreasons
                /\ clock' = tx.clock
                /\ wret' = [wret EXCEPT ![w] = ReturnValue(kind, tx.ok)]
                /\ wkind' = [wkind EXCEPT ![w] = IF tx.ok THEN kind ELSE "error"]
                /\ quiet' = IF tx.ok /\ wfresh[w] THEN d ELSE Null
                /\ wfresh' = [v \in Workers |->
                                /\ v # w
                                /\ wfresh[v]
                                /\ tx.assignments = assignments
                                /\ tx.blockingreasons = blockingreasons]
                /\ overlap' = [v \in Workers |->
                                /\ v # w
                                /\ pc[v] = "waiting"
                                /\ wrfc[v] = d
                                /\ \/ /\ overlap[v]
                                      /\ tx.assignments = assignments
                                      /\ tx.blockingreasons = blockingreasons
                                   \/ tx.ok /\ kind = "in"]
    /\ pc' = [pc EXCEPT ![w] = "done"]
    /\ lock' = [lock EXCEPT ![wrfc[w]] = Null]
    /\ wreasons' = [wreasons EXCEPT ![w] = {}]
    /\ wbefore' = [wbefore EXCEPT ![w] = FALSE]
    /\ UNCHANGED wrfc
    /\ UNCHANGED <<labels, actionholders, finalapprovals, relateddocs, catalog,
                   disposition, edits>>
    /\ UNCHANGED <<evalResult, batchvars, pollvars>>
    /\ UNCHANGED indexvars

Next ==
    \/ \E d \in Docs : \E l \in SpecLabels(d) : AddLabel(d, l)
    \/ \E d \in Docs : \E l \in SpecLabels(d) : RemoveLabel(d, l)
    \/ \E c \in SpecAssignChoices : Assign(c[1], c[2], c[3], c[4])
    \/ \E i \in DOMAIN assignments : Finish(i)
    \/ \E d \in Docs : Call("w1", d)
    \/ LockAndEvaluate("w1")
    \/ Mutate("w1")

Spec == Init /\ [][Next]_vars

----------------------------------------------------------------------------
(* Two reconcile calls at a time *)

\* the labels editors put on and take off each document while calls race
RaceLabels(d) == IF d = "d1" THEN {"Stream Hold"} ELSE {}

NextRace ==
    \/ \E d \in Docs : \E l \in RaceLabels(d) : AddLabel(d, l)
    \/ \E d \in Docs : \E l \in RaceLabels(d) : RemoveLabel(d, l)
    \/ \E w \in Workers : \E d \in Docs : Call(w, d)
    \/ \E w \in Workers : LockAndEvaluate(w)
    \/ \E w \in Workers : Mutate(w)

SpecRace == Init /\ [][NextRace]_vars

\* reconcile calls of one worker while editors also withdraw assignments,
\* the blocked ones included, and the hold label of d1 comes and goes
NextEdits ==
    \/ \E d \in Docs : \E l \in RaceLabels(d) : AddLabel(d, l)
    \/ \E d \in Docs : \E l \in RaceLabels(d) : RemoveLabel(d, l)
    \/ \E c \in SpecAssignChoices : Assign(c[1], c[2], c[3], c[4])
    \/ \E i \in DOMAIN assignments : Finish(i)
    \/ \E i \in DOMAIN assignments : Withdraw(i)
    \/ \E d \in Docs : Call("w1", d)
    \/ LockAndEvaluate("w1")
    \/ Mutate("w1")

SpecEdits == Init /\ [][NextEdits]_vars

\* databases whose assignments include rows without a person; the last one
\* is what an earlier hold leaves (history dates before the run are
\* negative): the assignment without a person was closed for the hold, the
\* blocked assignment was set done, and the re-created assignment has
\* since been finished
HoldInitStates ==
    {Start(<<>>, NoRelated, BlockingReasonSlugs),
     Start(<<Assignment("d1", Null, "first_editor", CLOSED_FOR_HOLD, "closed", -4),
             Assignment("d1", Null, ROLE_BLOCKED, DONE, "blocked", -2),
             Assignment("d1", Null, "first_editor", DONE, "recreated", 0)>>,
           NoRelated, BlockingReasonSlugs),
     Start(<<Row("d1", Null, "first_editor", IN_PROGRESS),
             Row("d1", Null, "second_editor", ASSIGNED)>>,
           NoRelated, BlockingReasonSlugs),
     Start(<<Row("d1", "A", "first_editor", IN_PROGRESS),
             Row("d1", Null, "first_editor", IN_PROGRESS)>>,
           NoRelated, BlockingReasonSlugs),
     Start(<<Row("d1", "A", "first_editor", IN_PROGRESS),
             Row("d1", "A", "second_editor", ASSIGNED),
             Row("d1", "B", "first_editor", ASSIGNED)>>,
           NoRelated, BlockingReasonSlugs)}

InitHold ==
    /\ \E s \in HoldInitStates :
        /\ assignments = s.assignments
        /\ relateddocs = s.relateddocs
        /\ catalog = s.catalog
    /\ clock = 0
    /\ edits = 0
    /\ labels = [d \in Docs |-> {}]
    /\ actionholders = {}
    /\ finalapprovals = {}
    /\ blockingreasons = {}
    /\ disposition = [d \in Docs |-> "in_progress"]
    /\ IdleCalls
    /\ NoEval
    /\ NoBatch
    /\ NoIndex
    /\ NoPoll

\* only reconcile calls change the assignments
SpecHold == InitHold /\ [][NextRace]_vars

----------------------------------------------------------------------------
(* The batch: update_blocked_assignments_for_in_progress_rfcs *)

\* the dispositions a document-to-be has
Dispositions == {"in_progress", "published"}

\* the labels editors put on and take off each document during a batch
BatchLabels(d) ==
    IF d = "d1" THEN {"Stream Hold", "Author Input Required"} ELSE {"Stream Hold"}

\* RfcToBe.objects.filter(disposition_id="in_progress")
in_progress_rfcs == {d \in Docs : disposition[d] = "in_progress"}

\* apply_blocked_assignment_for_rfc(rfc) run from its first line to its
\* last, the active assignments being yielded in the given order; the
\* result is not ok when the call raises RuntimeError
apply_blocked_assignment_for_rfc(tx, cat, d, order) ==
    LET ev == get_block_reasons(tx.assignments, d)
        blocked_before == _has_active_blocked_assignment(tx.assignments, d)
    IN  IF ev.raised THEN Fail(tx)
        ELSE apply_transition(tx, cat, d, ev.reasons, blocked_before, order)

InitBatch ==
    /\ \E s \in SpecInitStates :
        /\ assignments = s.assignments
        /\ relateddocs = s.relateddocs
        /\ catalog = s.catalog
    /\ disposition \in [Docs -> Dispositions]
    /\ clock = 0
    /\ edits = 0
    /\ labels = [d \in Docs |-> {}]
    /\ actionholders = {}
    /\ finalapprovals = {}
    /\ blockingreasons = {}
    /\ IdleCalls
    /\ NoEval
    /\ NoBatch
    /\ NoIndex
    /\ NoPoll

\* the batch is started: the queryset is evaluated, in some row order
BatchStart ==
    /\ batchState \in {"idle", "done", "failed"}
    /\ clock < MaxClock
    /\ \E order \in RowOrders(in_progress_rfcs) : batchTodo' = order
    /\ batchSeen' = <<>>
    /\ batchState' = "running"
    /\ UNCHANGED <<dbvars, callvars, evalResult, pollvars>>
    /\ UNCHANGED indexvars

\* one iteration of the loop: reconcile the next document; the
\* RuntimeError of a failing reconcile leaves the loop and the function
BatchStep ==
    /\ batchState = "running"
    /\ batchTodo # <<>>
    /\ LET d == Head(batchTodo)
       IN  /\ row_lock_free(d)
           /\ \E order \in RowOrders(active_assignment_qs(assignments, d)) :
                LET tx == apply_blocked_assignment_for_rfc(
                              Tx(assignments, blockingreasons, clock),
                              catalog, d, order)
                IN  /\ assignments' = tx.assignments
                    /\ blockingreasons' = tx.blockingreasons
                    /\ clock' = tx.clock
                    /\ batchState' = IF tx.ok THEN "running" ELSE "failed"
                    /\ batchTodo' = IF tx.ok THEN Tail(batchTodo) ELSE batchTodo
           /\ batchSeen' = Append(batchSeen, d)
    /\ Disturbed
    /\ UNCHANGED <<labels, actionholders, finalapprovals, relateddocs, catalog,
                   disposition, edits, evalResult, pollvars>>
    /\ UNCHANGED indexvars

\* the loop has visited every row: the function returns
BatchReturn ==
    /\ batchState = "running"
    /\ batchTodo = <<>>
    /\ batchState' = "done"
    /\ UNCHANGED <<batchTodo, batchSeen>>
    /\ UNCHANGED <<dbvars, callvars, evalResult, pollvars>>
    /\ UNCHANGED indexvars

NextBatch ==
    \/ \E d \in Docs : \E l \in BatchLabels(d) : AddLabel(d, l)
    \/ \E d \in Docs : \E l \in BatchLabels(d) : RemoveLabel(d, l)
    \/ BatchStart
    \/ BatchStep
    \/ BatchReturn

SpecBatch == InitBatch /\ [][NextBatch]_vars

----------------------------------------------------------------------------
(* The evaluator on its own: get_block_reasons applied to a document *)

\* the label sets a document carries
EvalLabelSets == {ls \in SUBSET LabelSlugs : Cardinality(ls) <= MaxLabels}

\* the assignment of person A a document has besides its completed roles
EvalExtraChoices ==
    {<<>>}
    \cup {<<Row("d1", "A", r, ASSIGNED)>> : r \in GateRoles}
    \cup {<<Row("d1", "A", "first_editor", CLOSED_FOR_HOLD)>>,
          <<Row("d1", "A", ROLE_BLOCKED, IN_PROGRESS)>>}

NotReceived(rel) == {RelatedDocument("d1", rel, Null, "draft")}

\* the relationships document d1 has
EvalRelatedChoices ==
    {NoRelated,
     NotReceived(NOT_RECEIVED_RELATIONSHIP_SLUG),
     NotReceived(NOT_RECEIVED_2G_RELATIONSHIP_SLUG)
        \cup NotReceived(NOT_RECEIVED_3G_RELATIONSHIP_SLUG),
     RefqueueToRfcToBe,
     RefqueueToDraft}

\* the assignments of document d2, the target of d1's refqueue relationship
EvalTargetChoices ==
    {<<>>,
     <<Row("d2", "B", "publisher", ASSIGNED)>>,
     [i \in DOMAIN GateRoleSeq |-> Row("d2", "B", GateRoleSeq[i], DONE)]}

InitEvalDb ==
    /\ \E k \in 0..Len(GateRoleSeq) : \E extra \in EvalExtraChoices :
       \E rel \in EvalRelatedChoices : \E target \in EvalTargetChoices :
        /\ (target # <<>> => rel \cap RefqueueToRfcToBe # {})
        /\ assignments = SubSeq(AllDone("d1", "B"), 1, k) \o extra \o target
        /\ relateddocs = rel
    /\ \E ls \in EvalLabelSets : labels = [d \in Docs |-> IF d = "d1" THEN ls ELSE {}]
    /\ \E hs \in {{}, {[target_rfctobe |-> "d1", completed |-> FALSE]},
                   {[target_rfctobe |-> "d1", completed |-> TRUE]}} :
        actionholders = hs
    /\ \E fs \in SUBSET {[rfc_to_be |-> "d1", approved |-> FALSE]} :
        finalapprovals = fs
    /\ catalog = BlockingReasonSlugs
    /\ blockingreasons = {}
    /\ disposition = [d \in Docs |-> "in_progress"]
    /\ clock = 0
    /\ edits = 0

InitEval ==
    /\ InitEvalDb
    /\ IdleCalls
    /\ NoEval
    /\ NoBatch
    /\ NoIndex
    /\ NoPoll

\* get_block_reasons(rfc) is called for document d
Evaluate(d) ==
    /\ LET ev == get_block_reasons(assignments, d)
       IN  evalResult' = [doc |-> d, raised |-> ev.raised, reasons |-> ev.reasons]
    /\ UNCHANGED <<dbvars, callvars, batchvars, pollvars>>
    /\ UNCHANGED indexvars

NextEval == \E d \in Docs : Evaluate(d)

SpecEval == InitEval /\ [][NextEval]_vars

\* the labels of d1 when the gates' role checks are examined
GateLabelSets ==
    {ls \in SUBSET {"Stream Hold", "ExtRef Hold", "Author Input Required"} :
        Cardinality(ls) <= MaxLabels}

\* besides its completed roles, d1 has no assignment or one assignment of
\* person A, in any role of the workflow and any state but done
GateExtraChoices ==
    {<<>>}
    \cup {<<Row("d1", "A", r, st)>> :
            r \in GateRoles,
            st \in {ASSIGNED, IN_PROGRESS, WITHDRAWN, CLOSED_FOR_HOLD}}

\* every combination of the three not-received relationships
GateRelatedChoices ==
    {UNION {NotReceived(rel) : rel \in tiers} :
        tiers \in SUBSET NOT_RECEIVED_RELATIONSHIP_SLUGS}

InitGate ==
    /\ \E k \in 0..Len(GateRoleSeq) : \E extra \in GateExtraChoices :
        assignments = SubSeq(AllDone("d1", "B"), 1, k) \o extra
    /\ relateddocs \in GateRelatedChoices
    /\ \E ls \in GateLabelSets :
        labels = [d \in Docs |-> IF d = "d1" THEN ls ELSE {}]
    /\ actionholders \in SUBSET {[target_rfctobe |-> "d1", completed |-> FALSE]}
    /\ finalapprovals = {}
    /\ catalog = BlockingReasonSlugs
    /\ blockingreasons = {}
    /\ disposition = [d \in Docs |-> "in_progress"]
    /\ clock = 0
    /\ edits = 0
    /\ IdleCalls
    /\ NoEval
    /\ NoBatch
    /\ NoIndex
    /\ NoPoll

SpecGate == InitGate /\ [][NextEval]_vars

\* the refqueue relationships of d1: to document d2, to a draft that is not
\* in the queue, to both, or none
RefqueueChoices == SUBSET (RefqueueToRfcToBe \cup RefqueueToDraft)

\* the assignments of d2: a prefix of the workflow completed and possibly a
\* publisher assignment that is not done
RefqueueTargetChoices ==
    {SubSeq(AllDone("d2", "B"), 1, j) \o extra :
        j \in {0, 3, 4, 5, 6},
        extra \in {<<>>} \cup
            {<<Row("d2", "A", "publisher", st)>> :
                st \in {ASSIGNED, IN_PROGRESS, WITHDRAWN, CLOSED_FOR_HOLD}}}

\* d1 has completed its first k roles and possibly holds the next one
InitRefqueue ==
    /\ \E k \in 2..5 : \E target \in RefqueueTargetChoices :
       \E extra \in {<<>>, <<Row("d1", "A", GateRoleSeq[k + 1], ASSIGNED)>>} :
        assignments = SubSeq(AllDone("d1", "B"), 1, k) \o extra \o target
    /\ relateddocs \in RefqueueChoices
    /\ \E ls \in SUBSET {"Stream Hold"} :
        labels = [d \in Docs |-> IF d = "d1" THEN ls ELSE {}]
    /\ actionholders = {}
    /\ finalapprovals \in {{}, {[rfc_to_be |-> "d1", approved |-> FALSE]},
                             {[rfc_to_be |-> "d1", approved |-> TRUE]}}
    /\ catalog = BlockingReasonSlugs
    /\ blockingreasons = {}
    /\ disposition = [d \in Docs |-> "in_progress"]
    /\ clock = 0
    /\ edits = 0
    /\ IdleCalls
    /\ NoEval
    /\ NoBatch
    /\ NoIndex
    /\ NoPoll

SpecRefqueue == InitRefqueue /\ [][NextEval]_vars

----------------------------------------------------------------------------
(* The poller of rpc/lifecycle/notifications.py: a periodic task that scans *)
(* the history logs and sends one batched notification.  Time is counted    *)
(* in units of 30 seconds.                                                  *)

\* timezone.timedelta(minutes=1)
ONE_MINUTE == 2

\* the saves of the model, each with the history log it appends to and
\* the document: the document's own log, and one of the logs whose records
\* point to the document through a foreign key
PollChanges ==
    {<<"rfctobe", "d1">>, <<"assignment", "d1">>, <<"assignment", "d2">>}

\* a historical record: its log, the document it belongs to, its
\* history_date and, in the document's own log, the disposition the
\* document had when the record was written
HistoryEntry(log, d, t, disp) ==
    [log |-> log, doc |-> d, history_date |-> t, disposition |-> disp]

\* RfcToBe.id
RfcToBePk(d) == IF d = "d1" THEN 1 ELSE 2

\* _should_notify_queue(rfc), given the slug of rfc.disposition
_should_notify_queue(slug) == slug = "in_progress"

\* get_updated_rfcs_since(t): the record of the document's own log is
\* itself tested, the records of the other logs lead to the document
get_updated_rfcs_since(hist, disp, t) ==
    {RfcToBePk(e.doc) :
        e \in {h \in hist :
                  /\ h.history_date > t
                  /\ _should_notify_queue(IF h.log = "rfctobe"
                                          THEN h.disposition
                                          ELSE disp[h.doc])}}

\* get_recent_changes(check_time)
get_recent_changes(hist, check_time) ==
    LET recent_change_threshold == check_time - ONE_MINUTE
    IN  \E h \in hist : h.history_date > recent_change_threshold

\* sorted(rfctobe_ids)
RECURSIVE sorted(_)
sorted(S) ==
    IF S = {} THEN <<>>
    ELSE LET least == CHOOSE x \in S : \A y \in S : x <= y
         IN  <<least>> \o sorted(S \ {least})

\* select_for_update that does not wait for the lock
taskrun_lock_free_NoLock == TRUE

\* select_for_update(): the row can be read once no other transaction
\* holds its lock
taskrun_lock_free == trlock = Null

\* the single-flight test that never skips
already_running_Never(task) == FALSE

\* if task_run.is_running
already_running(task) == task.is_running

\* the checkpoint advanced although recent changes made the poll return
last_run_at_after_OnQuiet(found, cct, path) ==
    IF path \in {"empty", "unconfigured", "sent", "quiet"} THEN cct ELSE found

\* the checkpoint advanced although the send raised
last_run_at_after_OnFailure(found, cct, path) ==
    IF path \in {"empty", "unconfigured", "sent", "failed"} THEN cct ELSE found

\* the checkpoint advanced to the time at which the poll completes
last_run_at_after_Completion(found, cct, path) ==
    IF path \in {"empty", "unconfigured", "sent"} THEN now ELSE found

\* task_run.last_run_at when the try block is left: line 186 is reached
\* unless the function returned or raised before it
last_run_at_after(found, cct, path) ==
    IF path \in {"empty", "unconfigured", "sent"} THEN cct ELSE found

\* the finally block without the reset
release_Keep(task) == task

\* finally: task_run.is_running = False
release(task) == [task EXCEPT !.is_running = FALSE]

\* the poller starts with or without its TaskRun row, with or without
\* the URL of the sink
InitPoll ==
    /\ assignments = <<>>
    /\ relateddocs = NoRelated
    /\ catalog = BlockingReasonSlugs
    /\ clock = 0
    /\ edits = 0
    /\ labels = [d \in Docs |-> {}]
    /\ actionholders = {}
    /\ finalapprovals = {}
    /\ blockingreasons = {}
    /\ disposition = [d \in Docs |-> "in_progress"]
    /\ IdleCalls
    /\ NoEval
    /\ NoBatch
    /\ NoIndex
    /\ taskrun \in {<<>>, <<TaskRun(0, FALSE)>>}
    /\ sinkurl \in BOOLEAN
    /\ trlock = Null
    /\ history = {}
    /\ now = 0
    /\ sent = <<>>
    /\ ppc = [w \in Workers |-> "idle"]
    /\ pcct = [w \in Workers |-> 0]
    /\ ptask = [w \in Workers |-> TaskRun(0, FALSE)]
    /\ pfound = [w \in Workers |-> <<>>]
    /\ pqueue = [w \in Workers |-> {}]
    /\ ppath = [w \in Workers |-> Null]

\* thirty seconds pass
Tick ==
    /\ now < MaxNow
    /\ now' = now + 1
    /\ UNCHANGED <<taskrun, trlock, history, sinkurl, sent, workervars>>
    /\ UNCHANGED <<dbvars, callvars, evalResult, batchvars>>
    /\ UNCHANGED indexvars

\* a row of one of the tracked tables is saved: simple_history appends a
\* record to its log
RecordChange(log, d) ==
    /\ Cardinality(history) < MaxEntries
    /\ history' = history \cup
            {HistoryEntry(log, d, now,
                          IF log = "rfctobe" THEN disposition[d] ELSE Null)}
    /\ UNCHANGED <<taskrun, trlock, now, sinkurl, sent, workervars>>
    /\ UNCHANGED <<dbvars, callvars, evalResult, batchvars>>
    /\ UNCHANGED indexvars

\* the document is published: its row is saved with the new disposition
Publish(d) ==
    /\ Cardinality(history) < MaxEntries
    /\ disposition[d] = "in_progress"
    /\ disposition' = [disposition EXCEPT ![d] = "published"]
    /\ history' = history \cup {HistoryEntry("rfctobe", d, now, "published")}
    /\ UNCHANGED <<taskrun, trlock, now, sinkurl, sent, workervars>>
    /\ UNCHANGED <<assignments, labels, actionholders, finalapprovals,
                   relateddocs, blockingreasons, catalog, clock, edits>>
    /\ UNCHANGED <<callvars, evalResult, batchvars>>
    /\ UNCHANGED indexvars

\* current_check_time = timezone.now()
PollBegin(w) ==
    /\ ppc[w] \in {"idle", "returned"}
    /\ ppc' = [ppc EXCEPT ![w] = "get"]
    /\ pcct' = [pcct EXCEPT ![w] = now]
    /\ ppath' = [ppath EXCEPT ![w] = Null]
    /\ UNCHANGED <<taskrun, trlock, history, now, sinkurl, sent, ptask, pfound,
                   pqueue>>
    /\ UNCHANGED <<dbvars, callvars, evalResult, batchvars>>
    /\ UNCHANGED indexvars

\* get_or_create: the get.  The row is read under its lock; without a row
\* the query locks nothing and DoesNotExist leads to the create
PollGet(w) ==
    /\ ppc[w] = "get"
    /\ IF taskrun = <<>>
       THEN /\ ppc' = [ppc EXCEPT ![w] = "create"]
            /\ UNCHANGED <<trlock, ptask, pfound>>
       ELSE /\ taskrun_lock_free
            /\ trlock' = w
            /\ ptask' = [ptask EXCEPT ![w] = taskrun[1]]
            /\ pfound' = [pfound EXCEPT ![w] = <<taskrun[1].last_run_at>>]
            /\ ppc' = [ppc EXCEPT ![w] = "locked"]
    /\ UNCHANGED <<taskrun, history, now, sinkurl, sent, pcct, pqueue, ppath>>
    /\ UNCHANGED <<dbvars, callvars, evalResult, batchvars>>
    /\ UNCHANGED indexvars

\* get_or_create: the create.  The insert waits for another transaction's
\* uncommitted insert of the same task_name; once that row is committed the
\* insert raises IntegrityError and the row is fetched instead
PollCreate(w) ==
    /\ ppc[w] = "create"
    /\ IF taskrun = <<>>
       THEN /\ trlock = Null
            /\ trlock' = w
            /\ ptask' = [ptask EXCEPT ![w] = TaskRun(pcct[w], FALSE)]
            /\ pfound' = [pfound EXCEPT ![w] = <<pcct[w]>>]
            /\ ppc' = [ppc EXCEPT ![w] = "locked"]
       ELSE /\ ppc' = [ppc EXCEPT ![w] = "get"]
            /\ UNCHANGED <<trlock, ptask, pfound>>
    /\ UNCHANGED <<taskrun, history, now, sinkurl, sent, pcct, pqueue, ppath>>
    /\ UNCHANGED <<dbvars, callvars, evalResult, batchvars>>
    /\ UNCHANGED indexvars

\* the rest of the atomic block: return if the task is running, otherwise
\* set is_running, save, and commit
PollCheck(w) ==
    /\ ppc[w] = "locked"
    /\ IF already_running(ptask[w])
       THEN /\ ppc' = [ppc EXCEPT ![w] = "returned"]
            /\ ppath' = [ppath EXCEPT ![w] = "skip"]
            /\ ptask' = [ptask EXCEPT ![w] = TaskRun(0, FALSE)]
            /\ pfound' = [pfound EXCEPT ![w] = <<>>]
            /\ UNCHANGED taskrun
       ELSE /\ ppc' = [ppc EXCEPT ![w] = "running"]
            /\ ptask' = [ptask EXCEPT ![w].is_running = TRUE]
            /\ taskrun' = <<[ptask[w] EXCEPT !.is_running = TRUE]>>
            /\ UNCHANGED <<ppath, pfound>>
    /\ trlock' = Null
    /\ UNCHANGED <<history, now, sinkurl, sent, pcct, pqueue>>
    /\ UNCHANGED <<dbvars, callvars, evalResult, batchvars>>
    /\ UNCHANGED indexvars

\* recent_change_threshold = current_check_time - 1 minute, handed to
\* get_recent_changes; recent changes make the function return
PollQuiet(w) ==
    /\ ppc[w] = "running"
    /\ LET recent_change_threshold == pcct[w] - ONE_MINUTE
       IN  IF get_recent_changes(history, recent_change_threshold)
           THEN /\ ppath' = [ppath EXCEPT ![w] = "quiet"]
                /\ ptask' = [ptask EXCEPT ![w].last_run_at =
                                last_run_at_after(@, pcct[w], "quiet")]
                /\ ppc' = [ppc EXCEPT ![w] = "finally"]
           ELSE /\ ppc' = [ppc EXCEPT ![w] = "scan"]
                /\ UNCHANGED <<ppath, ptask>>
    /\ UNCHANGED <<taskrun, trlock, history, now, sinkurl, sent, pcct, pfound,
                   pqueue>>
    /\ UNCHANGED <<dbvars, callvars, evalResult, batchvars>>
    /\ UNCHANGED indexvars

\* queue_rfcs = get_updated_rfcs_since(task_run.last_run_at)
PollScan(w) ==
    /\ ppc[w] = "scan"
    /\ pqueue' = [pqueue EXCEPT ![w] =
                    get_updated_rfcs_since(history, disposition,
                                           ptask[w].last_run_at)]
    /\ ppc' = [ppc EXCEPT ![w] = "notify"]
    /\ UNCHANGED <<taskrun, trlock, history, now, sinkurl, sent, pcct, ptask,
                   pfound, ppath>>
    /\ UNCHANGED <<dbvars, callvars, evalResult, batchvars>>
    /\ UNCHANGED indexvars

\* notify_red_precompute for a non-empty queue_rfcs: nothing is sent
\* without the URL; the post succeeds, or it raises (transport error or
\* raise_for_status); then task_run.last_run_at = current_check_time
\* unless an exception left the try block
PollNotify(w) ==
    /\ ppc[w] = "notify"
    /\ \E path \in {"empty", "unconfigured", "sent", "failed"} :
        /\ path = "empty" <=> pqueue[w] = {}
        /\ path = "unconfigured" <=> (pqueue[w] # {} /\ ~sinkurl)
        /\ ppath' = [ppath EXCEPT ![w] = path]
        /\ sent' = IF path = "sent" THEN Append(sent, sorted(pqueue[w]))
                   ELSE sent
        /\ ptask' = [ptask EXCEPT ![w].last_run_at =
                        last_run_at_after(@, pcct[w], path)]
    /\ ppc' = [ppc EXCEPT ![w] = "finally"]
    /\ UNCHANGED <<taskrun, trlock, history, now, sinkurl, pcct, pfound, pqueue>>
    /\ UNCHANGED <<dbvars, callvars, evalResult, batchvars>>
    /\ UNCHANGED indexvars

\* finally: is_running = False and save(), which writes every field of
\* the in-memory row and waits for the row's lock
PollFinally(w) ==
    /\ ppc[w] = "finally"
    /\ trlock = Null
    /\ taskrun' = <<release(ptask[w])>>
    /\ ppc' = [ppc EXCEPT ![w] = "returned"]
    /\ ptask' = [ptask EXCEPT ![w] = TaskRun(0, FALSE)]
    /\ pfound' = [pfound EXCEPT ![w] = <<>>]
    /\ pqueue' = [pqueue EXCEPT ![w] = {}]
    /\ UNCHANGED <<trlock, history, now, sinkurl, sent, pcct, ppath>>
    /\ UNCHANGED <<dbvars, callvars, evalResult, batchvars>>
    /\ UNCHANGED indexvars

\* one worker polls while time passes and rows are saved
NextPoll ==
    \/ Tick
    \/ \E c \in PollChanges : RecordChange(c[1], c[2])
    \/ Publish("d1")
    \/ PollBegin("w1")
    \/ PollGet("w1")
    \/ PollCreate("w1")
    \/ PollCheck("w1")
    \/ PollQuiet("w1")
    \/ PollScan("w1")
    \/ PollNotify("w1")
    \/ PollFinally("w1")

SpecPoll == InitPoll /\ [][NextPoll]_vars

\* independent worker processes poll at the same time
NextPollRace ==
    \/ Tick
    \/ RecordChange("assignment", "d1")
    \/ \E w \in Workers : PollBegin(w)
    \/ \E w \in Workers : PollGet(w)
    \/ \E w \in Workers : PollCreate(w)
    \/ \E w \in Workers : PollCheck(w)
    \/ \E w \in Workers : PollQuiet(w)
    \/ \E w \in Workers : PollScan(w)
    \/ \E w \in Workers : PollNotify(w)
    \/ \E w \in Workers : PollFinally(w)

\* the sink is configured
InitPollRace == InitPoll /\ sinkurl

SpecPollRace == InitPollRace /\ [][NextPollRace]_vars

\* reconcile calls of two workers, on either document, interleaved with
\* polls of the same two workers
NextCalls ==
    \/ NextRace
    \/ \E w \in Workers : PollBegin(w)
    \/ \E w \in Workers : PollGet(w)
    \/ \E w \in Workers : PollCreate(w)
    \/ \E w \in Workers : PollCheck(w)
    \/ \E w \in Workers : PollQuiet(w)
    \/ \E w \in Workers : PollScan(w)
    \/ \E w \in Workers : PollNotify(w)
    \/ \E w \in Workers : PollFinally(w)

\* d1 and d2 are both being edited and d1 refers to d2
InitCalls == Init /\ relateddocs = RefqueueToRfcToBe

SpecCalls == InitCalls /\ [][NextCalls]_vars

----------------------------------------------------------------------------
(* Steps of a reconcile call, as seen by the properties *)

\* call w leaves the evaluation with an exception
RaisesInEvaluation(w) == pc[w] = "waiting" /\ pc'[w] = "done"

\* call w ends its transaction
Ends(w) == pc[w] = "evaluated" /\ pc'[w] = "done"

\* unresolved blocking-reason records of document d among brs, for slug r
UnresolvedRecords(brs, d, r) ==
    {b \in brs : b.rfc = d /\ b.reason = r /\ b.resolved = Unresolved}

\* pks of the active blocked assignments of d
ActiveBlocked(asg, d) ==
    {i \in assignment_set(asg, d) \cap active(asg) : asg[i].role = ROLE_BLOCKED}

----------------------------------------------------------------------------
(* C1 *)

\* C1 (as claimed): a reconcile call that directly follows a returned
\* reconcile call of the same document, nothing else having changed the
\* data in between, does not raise, returns False and changes neither an
\* assignment nor a blocking-reason record.
C1_ReconcileIdempotent ==
    [][\A w \in Workers :
        /\ (RaisesInEvaluation(w) => quiet # wrfc[w])
        /\ (Ends(w) /\ quiet = wrfc[w] =>
                /\ wret'[w] = "False"
                /\ assignments' = assignments
                /\ blockingreasons' = blockingreasons)]_vars

----------------------------------------------------------------------------
(* C6 *)

\* number of times the batch loop has called reconcile for document d
BatchCalls(d) == Cardinality({i \in DOMAIN batchSeen : batchSeen[i] = d})

\* C6 (as claimed): when update_blocked_assignments_for_in_progress_rfcs
\* has ended, it has called reconcile once for every document whose
\* disposition is in_progress, the documents that follow a failing one
\* included, and for no other document.
C6_BatchIsolation ==
    batchState \in {"done", "failed"} =>
        \A d \in Docs :
            BatchCalls(d) = IF disposition[d] = "in_progress" THEN 1 ELSE 0

----------------------------------------------------------------------------
(* C2 *)

\* C2 (as claimed): two reconcile calls on the same document are
\* serialised by the row lock; the call that waited while the other moved
\* the document into blocked then observes blocked_before = true and is a
\* no-op (it does not raise, returns False and changes nothing); and no
\* document ever has two active blocked assignments of one person or two
\* unresolved blocking-reason records of one reason.
C2_SecondCallIsNoOp ==
    [][\A w \in Workers :
        /\ Ends(w) =>
                \A v \in Workers \ {w} :
                    ~(pc[v] = "evaluated" /\ wrfc[v] = wrfc[w])
        /\ RaisesInEvaluation(w) => ~overlap[w]
        /\ (Ends(w) /\ overlap[w]) =>
                /\ wbefore[w]
                /\ wret'[w] = "False"
                /\ assignments' = assignments
                /\ blockingreasons' = blockingreasons
        /\ \A d \in Docs :
                /\ \A i, j \in ActiveBlocked(assignments', d) :
                        assignments'[i].person = assignments'[j].person => i = j
                /\ \A r \in BlockingReasonSlugs :
                        Cardinality(UnresolvedRecords(blockingreasons', d, r)) <= 1
      ]_vars

----------------------------------------------------------------------------
(* C3 *)

\* C3: a reconcile call that computed a non-empty reason set, found no
\* active blocked assignment and makes the transition leaves every
\* assignment of the document that was active and not blocked in
\* closed_for_hold, leaves an in_progress blocked assignment for the person
\* of each of them, and leaves exactly one unresolved blocking-reason
\* record for each reason of the set.
C3_TransitionIntoBlocked ==
    [][\A w \in Workers :
        (Ends(w) /\ wreasons[w] # {} /\ ~wbefore[w] /\ wret'[w] = "True") =>
            LET d == wrfc[w]
                was == active_assignment_qs(assignments, d)
            IN  /\ \A i \in was : assignments'[i].state = CLOSED_FOR_HOLD
                /\ active_assignment_qs(assignments', d) = {}
                /\ \A i \in was : \E j \in ActiveBlocked(assignments', d) :
                        /\ assignments'[j].person = assignments[i].person
                        /\ assignments'[j].state = IN_PROGRESS
                /\ \A r \in wreasons[w] :
                        Cardinality(UnresolvedRecords(blockingreasons', d, r)) = 1
      ]_vars

\* A call has moved d1 into blocked: A's first_editor assignment is
\* closed_for_hold, A has an in_progress blocked assignment and label_stream_hold
\* has an unresolved record.
C3_Witness ==
    \E w \in Workers :
        /\ pc[w] = "done" /\ wkind[w] = "in" /\ wrfc[w] = "d1"
        /\ \E i \in DOMAIN assignments :
                /\ assignments[i] = [Row("d1", "A", "first_editor", CLOSED_FOR_HOLD)
                                        EXCEPT !.comment = "closed",
                                               !.hist = assignments[i].hist]
        /\ \E j \in ActiveBlocked(assignments, "d1") :
                assignments[j].person = "A" /\ assignments[j].state = IN_PROGRESS
        /\ UnresolvedRecords(blockingreasons, "d1", LABEL_STREAM_HOLD) # {}

----------------------------------------------------------------------------
(* C4 *)

\* C4: a reconcile call that computed the empty reason set, found an
\* active blocked assignment and makes the transition leaves every blocked
\* assignment that was active in done, leaves for each of their persons
\* who has a closed_for_hold assignment an assigned assignment with the
\* role of the person's most recently closed one, and leaves no
\* blocking-reason record of the document unresolved.
C4_TransitionOutOfBlocked ==
    [][\A w \in Workers :
        (Ends(w) /\ wreasons[w] = {} /\ wbefore[w] /\ wret'[w] = "True") =>
            LET d == wrfc[w]
                was == ActiveBlocked(assignments, d)
                held(p) == {i \in assignment_set(assignments, d) :
                               /\ assignments[i].state = CLOSED_FOR_HOLD
                               /\ assignments[i].person = p}
            IN  /\ \A a \in was : assignments'[a].state = DONE
                /\ ActiveBlocked(assignments', d) = {}
                /\ \A a \in was : held(assignments[a].person) # {} =>
                        \E c \in held(assignments[a].person) :
                            /\ \A e \in held(assignments[a].person) :
                                    assignments[e].hist <= assignments[c].hist
                            /\ \E j \in assignment_set(assignments', d) :
                                    /\ assignments'[j].role = assignments[c].role
                                    /\ assignments'[j].person = assignments[a].person
                                    /\ assignments'[j].state = ASSIGNED
                /\ \A b \in blockingreasons' : b.rfc = d => b.resolved # Unresolved
      ]_vars

\* A call has moved d1 out of blocked: A's blocked assignment is done, A's
\* first_editor assignment is re-created and the label_stream_hold record
\* is resolved.
C4_Witness ==
    \E w \in Workers :
        /\ pc[w] = "done" /\ wkind[w] = "out" /\ wrfc[w] = "d1"
        /\ \E i \in DOMAIN assignments :
                /\ assignments[i].role = ROLE_BLOCKED
                /\ assignments[i].person = "A"
                /\ assignments[i].state = DONE
        /\ \E j \in DOMAIN assignments :
                /\ assignments[j].role = "first_editor"
                /\ assignments[j].person = "A"
                /\ assignments[j].state = ASSIGNED
                /\ assignments[j].comment = "recreated"
        /\ \E b \in blockingreasons :
                b.rfc = "d1" /\ b.reason = LABEL_STREAM_HOLD /\ b.resolved # Unresolved

----------------------------------------------------------------------------
(* C5 *)

\* C5: a reconcile call that raises leaves the assignments and the
\* blocking-reason records exactly as they were before the call's
\* transaction, and a transition into blocked for a reason that has no
\* row in the catalog raises.
C5_AtomicOnFailure ==
    [][\A w \in Workers :
        /\ (pc'[w] = "done" /\ pc[w] # "done" /\ wret'[w] = "error") =>
                /\ assignments' = assignments
                /\ blockingreasons' = blockingreasons
        /\ (Ends(w) /\ ~wbefore[w] /\ wreasons[w] \ catalog # {}) =>
                wret'[w] = "error"]_vars

\* A call on d1 has raised in the transition into blocked, the reason
\* label_author_input_required having no row in the catalog.
C5_Witness ==
    \E w \in Workers :
        /\ pc[w] = "done" /\ wret[w] = "error" /\ wrfc[w] = "d1"
        /\ LABEL_AUTHOR_INPUT_REQUIRED \notin catalog
        /\ "Author Input Required" \in labels["d1"]
        /\ active_assignment_qs(assignments, "d1") # {}
        /\ ActiveBlocked(assignments, "d1") = {}

----------------------------------------------------------------------------
(* The gates, as seen by the properties *)

\* the role sets of the five gates, in gate order
GateRoleSets ==
    <<{"ref_checker", "formatting"}, {"first_editor"}, {"second_editor"},
      {"final_review_editor"}, {"publisher"}>>

\* the roles in which document d has an active assignment or a pending
\* activity
ActiveOrPendingRoles(asg, d) ==
    {asg[i].role : i \in {j \in DOMAIN asg :
                            /\ asg[j].rfc = d
                            /\ asg[j].state \in {ASSIGNED, IN_PROGRESS}}}
    \cup pending_activities(asg, d)

\* document d has an active assignment or a pending activity in gate k
MatchesGate(asg, d, k) == GateRoleSets[k] \cap ActiveOrPendingRoles(asg, d) # {}

\* the first gate document d matches; 0 when it matches none
FirstGate(asg, d) ==
    LET roles == ActiveOrPendingRoles(asg, d)
        ms == {k \in DOMAIN GateRoleSets : GateRoleSets[k] \cap roles # {}}
    IN  IF ms = {} THEN 0 ELSE CHOOSE k \in ms : \A j \in ms : k <= j

\* the reasons gate k can produce
GateUniverse(k) ==
    CASE k = 1 -> {ACTION_HOLDER_ACTIVE, LABEL_STREAM_HOLD, LABEL_EXTREF_HOLD,
                   LABEL_AUTHOR_INPUT_REQUIRED, REFERENCE_NOT_RECEIVED,
                   REFERENCE_NOT_RECEIVED_2G, REFERENCE_NOT_RECEIVED_3G}
      [] k = 2 -> {ACTION_HOLDER_ACTIVE, LABEL_STREAM_HOLD,
                   LABEL_AUTHOR_INPUT_REQUIRED}
      [] k = 3 -> {ACTION_HOLDER_ACTIVE, LABEL_STREAM_HOLD, LABEL_IANA_HOLD,
                   REFQUEUE_FIRST_EDIT_INCOMPLETE}
      [] k = 4 -> {REFQUEUE_SECOND_EDIT_INCOMPLETE, LABEL_STREAM_HOLD,
                   ACTION_HOLDER_ACTIVE}
      [] k = 5 -> {LABEL_STREAM_HOLD, LABEL_IANA_HOLD, TOOLS_ISSUE,
                   REFQUEUE_PUBLISH_INCOMPLETE, FINAL_APPROVAL_PENDING}
      [] OTHER -> {}

\* the reasons gate k produces for document d
GateReasons(asg, d, k) ==
    CASE k = 1 -> Gate1Reasons(d)
      [] k = 2 -> Gate2Reasons(d)
      [] k = 3 -> Gate3Reasons(asg, d)
      [] k = 4 -> Gate4Reasons(asg, d)
      [] k = 5 -> Gate5Reasons(asg, d)
      [] OTHER -> {}

\* the reasons only gates after gate 1 produce
LaterGateReasons ==
    {LABEL_IANA_HOLD, TOOLS_ISSUE, REFQUEUE_FIRST_EDIT_INCOMPLETE,
     REFQUEUE_SECOND_EDIT_INCOMPLETE, REFQUEUE_PUBLISH_INCOMPLETE,
     FINAL_APPROVAL_PENDING}

----------------------------------------------------------------------------
(* C7 *)

\* C7: the reason set get_block_reasons returns is the reason set of the
\* first gate, in the order ref_checker/formatting, first_editor,
\* second_editor, final_review_editor, publisher, in which the document has
\* an active or pending role, and of no other gate; a document that matches
\* gate 1 gets none of the reasons only later gates produce, and a document
\* that matches gate 1 or 2 gets a reason set.
C7_GateShortCircuit ==
    \A d \in Docs : evalResult.doc = d =>
        LET g == FirstGate(assignments, d)
        IN  /\ g \in {1, 2} => ~evalResult.raised
            /\ ~evalResult.raised =>
                    /\ evalResult.reasons = GateReasons(assignments, d, g)
                    /\ evalResult.reasons \subseteq GateUniverse(g)
                    /\ g = 1 => evalResult.reasons \cap LaterGateReasons = {}

\* d1 matches gate 1 through A's ref_checker assignment while the
\* conditions of later gates hold (labels, final approval, a referenced
\* document whose first edit is incomplete), and the evaluator has returned
\* the empty reason set of gate 1.
C7_Witness ==
    /\ evalResult.doc = "d1"
    /\ FirstGate(assignments, "d1") = 1
    /\ MatchesGate(assignments, "d1", 2)
    /\ labels["d1"] = {"IANA Hold", "Tools Issue"}
    /\ finalapproval_active("d1")
    /\ Gate3Reasons(assignments, "d1") # {}
    /\ Gate5Reasons(assignments, "d1") # {}
    /\ ~evalResult.raised
    /\ evalResult.reasons = {}

----------------------------------------------------------------------------
(* C8 *)

\* C8: for a document with no active assignment and no pending activity
\* in the role set of any gate, get_block_reasons returns the empty set,
\* whatever its labels, action holders, references and approvals.
C8_NoGateNoReasons ==
    \A d \in Docs :
        (evalResult.doc = d /\ FirstGate(assignments, d) = 0) =>
            /\ ~evalResult.raised
            /\ evalResult.reasons = {}

\* d1 matches no gate, has labels, an active action holder, a pending
\* final approval and a refqueue relationship, and the evaluator has
\* returned the empty set.
C8_Witness ==
    /\ evalResult.doc = "d1"
    /\ FirstGate(assignments, "d1") = 0
    /\ "Stream Hold" \in labels["d1"]
    /\ "Tools Issue" \in labels["d1"]
    /\ actionholder_active("d1")
    /\ finalapproval_active("d1")
    /\ related("d1", REFQUEUE_RELATIONSHIP_SLUG) # {}
    /\ evalResult.reasons = {}

----------------------------------------------------------------------------
(* C9 *)

\* C9: for a document with an active ref_checker assignment and the
\* Stream Hold label that has no active action holder, no ExtRef Hold or
\* Author Input Required label and no not-received relationship,
\* get_block_reasons returns exactly {label_stream_hold}.
C9_StreamHoldOnly ==
    \A d \in Docs :
        ( /\ evalResult.doc = d
          /\ \E i \in DOMAIN assignments :
                /\ assignments[i].rfc = d
                /\ assignments[i].role = "ref_checker"
                /\ assignments[i].state \in {ASSIGNED, IN_PROGRESS}
          /\ "Stream Hold" \in labels[d]
          /\ ~\E h \in actionholders : h.target_rfctobe = d /\ ~h.completed
          /\ labels[d] \cap {"ExtRef Hold", "Author Input Required"} = {}
          /\ ~\E r \in relateddocs :
                r.source = d /\ r.relationship \in NOT_RECEIVED_RELATIONSHIP_SLUGS )
        => /\ ~evalResult.raised
           /\ evalResult.reasons = {LABEL_STREAM_HOLD}

\* d1 has an active ref_checker assignment, the labels Stream Hold and
\* IANA Hold, a completed action holder and a refqueue relationship, and
\* the evaluator has returned {label_stream_hold}.
C9_Witness ==
    /\ evalResult.doc = "d1"
    /\ \E i \in DOMAIN assignments :
            assignments[i] = Row("d1", "A", "ref_checker", ASSIGNED)
    /\ labels["d1"] = {"Stream Hold", "IANA Hold"}
    /\ actionholders = {[target_rfctobe |-> "d1", completed |-> TRUE]}
    /\ relateddocs = RefqueueToDraft
    /\ evalResult.reasons = {LABEL_STREAM_HOLD}

----------------------------------------------------------------------------
(* C10 *)

\* C10 (as claimed): get_block_reasons returns a reason set, without
\* raising, for every document that satisfies the constraints of the data
\* model, a document at gate 3, 4 or 5 whose refqueue relationship targets
\* an external draft included.
C10_EvaluatorTotal ==
    evalResult.doc # Null => ~evalResult.raised

----------------------------------------------------------------------------
(* C11 *)

\* C11: in every state reached by reconcile calls interleaved with label
\* and assignment changes of editors, each document has at most one
\* unresolved blocking-reason record for each reason.
C11_OneUnresolvedRecordPerReason ==
    \A d \in Docs : \A r \in BlockingReasonSlugs :
        Cardinality(UnresolvedRecords(blockingreasons, d, r)) <= 1

\* An editor has withdrawn the blocked assignment of d1 while its
\* label_stream_hold record was unresolved, and a reconcile call that then
\* tried to move d1 into blocked again has raised: the record is still the
\* only unresolved one.
C11_Witness ==
    \E w \in Workers :
        /\ pc[w] = "done" /\ wret[w] = "error" /\ wrfc[w] = "d1"
        /\ catalog = BlockingReasonSlugs
        /\ relateddocs = NoRelated
        /\ "Stream Hold" \in labels["d1"]
        /\ ActiveBlocked(assignments, "d1") = {}
        /\ Cardinality(UnresolvedRecords(blockingreasons, "d1", LABEL_STREAM_HOLD)) = 1

\* C12: whatever transitions into and out of blocked the reconcile calls
\* make, a document never has two active assignments with the same person
\* (or both without a person) and the same role, the blocked role included.
C12_OneActiveAssignmentPerTuple ==
    \A d \in Docs : \A p \in Persons \cup {Null} : \A r \in Roles :
        Cardinality({i \in assignment_set(assignments, d) \cap active(assignments) :
                        assignments[i].person = p /\ assignments[i].role = r}) <= 1

\* two assignments without a person were closed for hold and one blocked
\* assignment without a person holds the document
C12_Witness ==
    /\ \E w \in Workers : pc[w] = "done" /\ wkind[w] = "in" /\ wrfc[w] = "d1"
    /\ Cardinality({i \in assignment_set(assignments, "d1") :
                       /\ assignments[i].person = Null
                       /\ assignments[i].state = CLOSED_FOR_HOLD}) = 2
    /\ Cardinality({i \in ActiveBlocked(assignments, "d1") :
                       assignments[i].person = Null}) = 1

----------------------------------------------------------------------------
(* Steps of a poll, as seen by the properties *)

\* poll w is between its check-and-set of is_running and its release
InSection(w) == ppc[w] \in {"running", "scan", "notify", "finally"}

\* poll w returns
Returns(w) == ppc[w] # "returned" /\ ppc'[w] = "returned"

\* C13: a poll that finds is_running set in the record it has read under
\* the lock returns at once as a skip; the step sends nothing and leaves
\* the record, last_run_at included, as it was.
C13_SingleFlightSkip ==
    [][\A w \in Workers :
        (ppc[w] = "locked" /\ ptask[w].is_running /\ ppc'[w] # ppc[w]) =>
            /\ ppc'[w] = "returned"
            /\ ppath'[w] = "skip"
            /\ sent' = sent
            /\ taskrun' = taskrun]_vars

\* a poll has skipped while another poll is running
C13_Witness ==
    \E w, v \in Workers :
        /\ ppc[w] = "returned" /\ ppath[w] = "skip"
        /\ InSection(v)
        /\ taskrun # <<>> /\ taskrun[1].is_running

\* C14: two polls are never both between the check-and-set of is_running
\* and the release, whether the record existed or is created by this run.
C14_MutualExclusion ==
    \A w, v \in Workers : (InSection(w) /\ InSection(v)) => w = v

\* first run ever: one poll has created the record and is running, the
\* other found no record either and has still to create or fetch it
C14_Witness ==
    \E w, v \in Workers :
        /\ InSection(w)
        /\ ppc[v] = "create"
        /\ taskrun # <<>>

\* C15: a poll that holds the guard while some history record is newer
\* than current_check_time minus one minute (30 seconds old, for one)
\* takes the quiet path: it sends nothing, and the last_run_at it leaves
\* in the record is the one it found.
C15_QuietPeriod ==
    [][\A w \in Workers :
        /\ ( /\ ppc[w] = "running"
             /\ \E h \in history : h.history_date > pcct[w] - ONE_MINUTE
             /\ ppc'[w] # ppc[w] ) =>
                /\ ppc'[w] = "finally"
                /\ ppath'[w] = "quiet"
                /\ sent' = sent
        /\ (ppc[w] = "finally" /\ ppath[w] = "quiet" /\ Returns(w)) =>
                /\ sent' = sent
                /\ taskrun'[1].last_run_at = taskrun[1].last_run_at
                /\ taskrun'[1].last_run_at = pfound[w][1]]_vars

\* a poll has returned on the quiet path because of a record written 30
\* seconds before its current_check_time; the checkpoint is still 0
C15_Witness ==
    \E w \in Workers :
        /\ ppc[w] = "returned" /\ ppath[w] = "quiet"
        /\ pcct[w] > 0
        /\ \E h \in history : h.history_date = pcct[w] - 1
        /\ taskrun = <<TaskRun(0, FALSE)>>
        /\ sent = <<>>

\* C16: when the send of a non-empty set to the configured sink does not
\* deliver, the poll leaves by the exception, and the last_run_at it
\* leaves in the record is the one the record had before.
C16_FailureKeepsCheckpoint ==
    [][\A w \in Workers :
        /\ ( /\ ppc[w] = "notify" /\ ppc'[w] # ppc[w]
             /\ pqueue[w] # {} /\ sinkurl /\ sent' = sent ) =>
                ppath'[w] = "failed"
        /\ (ppc[w] = "finally" /\ ppath[w] = "failed" /\ Returns(w)) =>
                /\ ppath'[w] = "failed"
                /\ taskrun'[1].last_run_at = taskrun[1].last_run_at
                /\ taskrun'[1].last_run_at = pfound[w][1]]_vars

\* a poll whose send failed has returned: the sink has accepted nothing
\* and the checkpoint is still 0, earlier than the poll's time
C16_Witness ==
    \E w \in Workers :
        /\ ppc[w] = "returned" /\ ppath[w] = "failed"
        /\ pcct[w] > 0
        /\ taskrun = <<TaskRun(0, FALSE)>>
        /\ sent = <<>>

\* C17, as stated: whatever path a poll takes, the early exit included,
\* is_running is false in the record when the poll returns.
C17_FlagResetOnEveryReturn ==
    [][\A w \in Workers :
        Returns(w) => (taskrun' # <<>> /\ ~taskrun'[1].is_running)]_vars

\* C17, amended: a poll that acquired the guard (success, failed send,
\* quiet period) has reset is_running when it returns; a poll that exits
\* early because the guard is held leaves the record, whose is_running is
\* true, as it is.
C17_FlagResetAfterAcquire ==
    [][\A w \in Workers :
        Returns(w) =>
            IF ppath'[w] = "skip"
            THEN taskrun' = taskrun /\ taskrun[1].is_running
            ELSE taskrun' # <<>> /\ ~taskrun'[1].is_running]_vars

\* one poll has sent and returned, the other exited early meanwhile, and
\* the flag is down
C17_Witness ==
    \E w, v \in Workers :
        /\ ppc[w] = "returned" /\ ppath[w] = "sent"
        /\ ppc[v] = "returned" /\ ppath[v] = "skip"
        /\ taskrun # <<>> /\ ~taskrun[1].is_running

\* C18: the final save of a poll changes last_run_at only if the poll
\* found no affected document or its notification was accepted by the
\* sink.
C18_AdvanceOnlyOnConfirmedSuccess ==
    [][\A w \in Workers :
        ( /\ ppc[w] = "finally" /\ Returns(w)
          /\ taskrun'[1].last_run_at # taskrun[1].last_run_at ) =>
            (pqueue[w] = {} \/ ppath[w] = "sent")]_vars

\* C19: a poll that held the guard, passed the quiet-period test and
\* either found no changed document or had its notification accepted
\* leaves last_run_at equal to the current_check_time it took when it
\* started.
C19_AdvanceToCheckTime ==
    [][\A w \in Workers :
        ( /\ ppc[w] = "finally" /\ Returns(w)
          /\ ppath[w] \in {"empty", "sent"} ) =>
            taskrun'[1].last_run_at = pcct[w]]_vars

\* a poll has sent and returned; time has passed since it started and a
\* record written after its start is there for the next poll
C19_Witness ==
    \E w \in Workers :
        /\ ppc[w] = "returned" /\ ppath[w] = "sent"
        /\ taskrun = <<TaskRun(pcct[w], FALSE)>>
        /\ pcct[w] < now
        /\ \E h \in history : h.history_date > pcct[w]

\* C20: the set of documents a poll collects holds only documents whose
\* disposition is in_progress at the time of the scan, whichever history
\* log their records are in.
C20_OnlyCurrentlyInProgress ==
    [][\A w \in Workers :
        (ppc[w] = "scan" /\ ppc'[w] = "notify") =>
            \A d \in Docs :
                RfcToBePk(d) \in pqueue'[w] => disposition[d] = "in_progress"]_vars

\* C21: no change is lost.  A history record of a document that is still
\* in_progress, once it is older than the checkpoint (no later scan can
\* return it), has had its document listed in an accepted notification.
C21_NoChangeLost ==
    taskrun # <<>> =>
        \A h \in history :
            ( /\ disposition[h.doc] = "in_progress"
              /\ h.history_date < taskrun[1].last_run_at ) =>
                \E i \in DOMAIN sent :
                    \E j \in DOMAIN sent[i] : sent[i][j] = RfcToBePk(h.doc)

\* C22: a poll that holds the guard returns for quiet-period reasons if
\* and only if some history record is strictly newer than its
\* current_check_time minus one minute.
C22_QuietIffWithinOneMinute ==
    [][\A w \in Workers :
        (ppc[w] = "running" /\ ppc'[w] # ppc[w]) =>
            (ppath'[w] = "quiet" <=>
                \E h \in history : h.history_date > pcct[w] - ONE_MINUTE)]_vars

\* C23: a poll posts at most one notification, at its notify step: none
\* when the set it collected is empty, exactly one when it is not, and a
\* payload the sink accepts lists every document of the set once, in
\* ascending order.
C23_OneSortedNotification ==
    [][/\ sent' # sent =>
            /\ Len(sent') = Len(sent) + 1
            /\ \E w \in Workers : ppc[w] = "notify" /\ ppc'[w] = "finally"
       /\ \A w \in Workers :
            (ppc[w] = "notify" /\ ppc'[w] # ppc[w]) =>
                IF pqueue[w] = {}
                THEN sent' = sent /\ ppath'[w] = "empty"
                ELSE /\ ppath'[w] \in {"sent", "failed"}
                     /\ ppath'[w] = "sent" =>
                            LET payload == sent'[Len(sent')]
                            IN  /\ sent' = Append(sent, payload)
                                /\ {payload[j] : j \in DOMAIN payload} = pqueue[w]
                                /\ \A i, j \in DOMAIN payload :
                                        i < j => payload[i] < payload[j]]_vars

\* C24: gate k matches a document, for get_block_reasons, exactly when
\* the document has an assigned or in_progress assignment in a role of the
\* gate or a role of the gate is among its pending activities: done,
\* withdrawn and closed_for_hold assignments do not count.  The reasons
\* returned are those of the first gate that matches in this sense.
C24_GateMatch ==
    \A d \in Docs : evalResult.doc = d =>
        /\ \A k \in DOMAIN GateRoleSets :
                _is_active_or_pending_assignment(assignments, d, GateRoleSets[k])
                    <=> ( \/ \E i \in DOMAIN assignments :
                                /\ assignments[i].rfc = d
                                /\ assignments[i].role \in GateRoleSets[k]
                                /\ assignments[i].state \in {ASSIGNED, IN_PROGRESS}
                          \/ \E r \in GateRoleSets[k] :
                                r \in pending_activities(assignments, d) )
        /\ ~evalResult.raised =>
                evalResult.reasons =
                    GateReasons(assignments, d, FirstGate(assignments, d))

\* d1's only gate-1 assignment is withdrawn: gate 1 does not match, the
\* pending first edit makes gate 2 match, and the gate-1 label ExtRef Hold
\* gives no reason
C24_Witness ==
    /\ evalResult.doc = "d1"
    /\ assignments = <<Row("d1", "A", "ref_checker", WITHDRAWN)>>
    /\ "ExtRef Hold" \in labels["d1"]
    /\ FirstGate(assignments, "d1") = 2
    /\ ~evalResult.raised
    /\ LABEL_EXTREF_HOLD \notin evalResult.reasons

\* C25: when gate 1 is the matching gate, the returned set holds at most
\* one of the three not-received reasons: the base one if the document has
\* a base not-received relationship, otherwise the 2g one if it has a 2g
\* relationship, otherwise the 3g one if it has a 3g relationship; and the
\* action-holder and label reasons of gate 1 are in the set in every case.
C25_OneNotReceivedTier ==
    \A d \in Docs :
        ( /\ evalResult.doc = d
          /\ _is_active_or_pending_assignment(assignments, d, GateRoleSets[1]) ) =>
            LET tiers == evalResult.reasons \cap
                            {REFERENCE_NOT_RECEIVED, REFERENCE_NOT_RECEIVED_2G,
                             REFERENCE_NOT_RECEIVED_3G}
                base == related(d, NOT_RECEIVED_RELATIONSHIP_SLUG) # {}
                g2 == related(d, NOT_RECEIVED_2G_RELATIONSHIP_SLUG) # {}
                g3 == related(d, NOT_RECEIVED_3G_RELATIONSHIP_SLUG) # {}
            IN  /\ ~evalResult.raised
                /\ Cardinality(tiers) <= 1
                /\ base => tiers = {REFERENCE_NOT_RECEIVED}
                /\ (~base /\ g2) => tiers = {REFERENCE_NOT_RECEIVED_2G}
                /\ (~base /\ ~g2 /\ g3) => tiers = {REFERENCE_NOT_RECEIVED_3G}
                /\ (~base /\ ~g2 /\ ~g3) => tiers = {}
                /\ actionholder_active(d) <=>
                        ACTION_HOLDER_ACTIVE \in evalResult.reasons
                /\ "Stream Hold" \in labels[d] <=>
                        LABEL_STREAM_HOLD \in evalResult.reasons
                /\ "ExtRef Hold" \in labels[d] <=>
                        LABEL_EXTREF_HOLD \in evalResult.reasons
                /\ "Author Input Required" \in labels[d] <=>
                        LABEL_AUTHOR_INPUT_REQUIRED \in evalResult.reasons

\* the 2g early return: d1 has 2g and 3g relationships and no base one,
\* an active action holder and two gate-1 labels, and all four reasons
\* come back
C25_Witness ==
    /\ evalResult.doc = "d1"
    /\ _is_active_or_pending_assignment(assignments, "d1", GateRoleSets[1])
    /\ related("d1", NOT_RECEIVED_RELATIONSHIP_SLUG) = {}
    /\ related("d1", NOT_RECEIVED_2G_RELATIONSHIP_SLUG) # {}
    /\ related("d1", NOT_RECEIVED_3G_RELATIONSHIP_SLUG) # {}
    /\ evalResult.reasons =
            {ACTION_HOLDER_ACTIVE, LABEL_STREAM_HOLD, LABEL_EXTREF_HOLD,
             REFERENCE_NOT_RECEIVED_2G}

\* C26 (as claimed): when gate 3 is the matching gate the returned set
\* holds refqueue_first_edit_incomplete exactly when some refqueue
\* relationship of the document has a target whose incomplete activities
\* include first_editor, and when gate 4 is the matching gate it holds
\* refqueue_second_edit_incomplete exactly when some target's incomplete
\* activities include second_editor.
C26_RefqueueEditIncomplete ==
    \A d \in Docs : evalResult.doc = d =>
        LET targets == {r.target_rfctobe :
                            r \in related(d, REFQUEUE_RELATIONSHIP_SLUG)} \ {Null}
            g == FirstGate(assignments, d)
        IN  /\ g = 3 =>
                (REFQUEUE_FIRST_EDIT_INCOMPLETE \in evalResult.reasons
                    <=> \E t \in targets :
                            "first_editor" \in incomplete_activities(assignments, t))
            /\ g = 4 =>
                (REFQUEUE_SECOND_EDIT_INCOMPLETE \in evalResult.reasons
                    <=> \E t \in targets :
                            "second_editor" \in incomplete_activities(assignments, t))

\* C27 (as claimed): when gate 5 is the matching gate the returned set
\* holds refqueue_publish_incomplete exactly when some refqueue target has
\* no publisher assignment that is assigned, in_progress or done, and it
\* holds final_approval_pending exactly when the document has a final
\* approval request that is not approved.
C27_PublishGate ==
    \A d \in Docs :
        (evalResult.doc = d /\ FirstGate(assignments, d) = 5) =>
            LET targets == {r.target_rfctobe :
                                r \in related(d, REFQUEUE_RELATIONSHIP_SLUG)} \ {Null}
            IN  /\ REFQUEUE_PUBLISH_INCOMPLETE \in evalResult.reasons
                    <=> \E t \in targets :
                          ~\E i \in DOMAIN assignments :
                                /\ assignments[i].rfc = t
                                /\ assignments[i].role = "publisher"
                                /\ assignments[i].state \in
                                        {ASSIGNED, IN_PROGRESS, DONE}
                /\ FINAL_APPROVAL_PENDING \in evalResult.reasons
                    <=> \E f \in finalapprovals :
                            f.rfc_to_be = d /\ ~f.approved

C29_OneBlockedPerPerson ==
    [][\A w \in Workers :
        (Ends(w) /\ wreasons[w] # {} /\ ~wbefore[w] /\ wret'[w] = "True") =>
            LET d == wrfc[w]
                holders == {assignments[i].person :
                                i \in active_assignment_qs(assignments, d)}
                blocked == ActiveBlocked(assignments', d)
                of(p) == {j \in blocked : assignments'[j].person = p}
            IN  /\ holders # {} =>
                    /\ \A p \in holders : Cardinality(of(p)) = 1
                    /\ \A j \in blocked : assignments'[j].person \in holders
                /\ holders = {} =>
                    /\ Cardinality(blocked) = 1
                    /\ \A j \in blocked : assignments'[j].person = Null
                /\ active_assignment_qs(assignments', d) = {}
      ]_vars

\* A held two roles and B one: both of A's assignments and B's are
\* closed_for_hold and each of the two has one blocked assignment
C29_Witness ==
    /\ \E w \in Workers : pc[w] = "done" /\ wkind[w] = "in" /\ wrfc[w] = "d1"
    /\ Cardinality({i \in assignment_set(assignments, "d1") :
                       /\ assignments[i].person = "A"
                       /\ assignments[i].state = CLOSED_FOR_HOLD}) = 2
    /\ Cardinality(ActiveBlocked(assignments, "d1")) = 2
    /\ {assignments[j].person : j \in ActiveBlocked(assignments, "d1")} = {"A", "B"}
    /\ active_assignment_qs(assignments, "d1") = {}

\* C30 (as claimed): a reconcile call that moves a document out of blocked
\* creates, for each blocked assignment that was active, at most one
\* assignment: it is in state assigned and has the role of the
\* closed_for_hold assignment of the blocked assignment's person with the
\* most recent history timestamp; for a person without a closed_for_hold
\* assignment, and for the blocked assignment without a person that was
\* created when the document had no active assignment, it creates none.
C30_RecreateLatestClosed ==
    [][\A w \in Workers :
        (Ends(w) /\ wreasons[w] = {} /\ wbefore[w] /\ wret'[w] = "True") =>
            LET d == wrfc[w]
                was == ActiveBlocked(assignments, d)
                held(p) == {i \in assignment_set(assignments, d) :
                               /\ assignments[i].state = CLOSED_FOR_HOLD
                               /\ assignments[i].person = p}
                created == {j \in DOMAIN assignments' : j > Len(assignments)}
                \* no assignment was closed for the hold that a created it
                ownerless(a) ==
                    /\ assignments[a].person = Null
                    /\ \A c \in held(Null) :
                            assignments[c].hist < assignments[a].hist - 1
            IN  /\ \A j \in created :
                    /\ assignments'[j].rfc = d
                    /\ assignments'[j].state = ASSIGNED
                    /\ \E a \in was : \E c \in held(assignments[a].person) :
                            /\ assignments'[j].person = assignments[a].person
                            /\ assignments'[j].role = assignments[c].role
                            /\ \A e \in held(assignments[a].person) :
                                    assignments[e].hist <= assignments[c].hist
                /\ \A a \in was :
                    Cardinality({j \in created :
                        assignments'[j].person = assignments[a].person}) <= 1
                /\ \A a \in was :
                    (held(assignments[a].person) = {} \/ ownerless(a)) =>
                        ~\E j \in created :
                            assignments'[j].person = assignments[a].person
      ]_vars

\* C31: in every step, a blocking-reason record that is resolved stays as
\* it is, an unresolved record stays or gets a resolved timestamp, no
\* record disappears, and a reconcile call that moves a document into
\* blocked adds for each of its reasons a record that did not exist.
C31_RecordsAppendOnly ==
    [][/\ \A b \in blockingreasons :
            IF b.resolved # Unresolved
            THEN b \in blockingreasons'
            ELSE \E c \in blockingreasons' :
                    /\ c.rfc = b.rfc /\ c.reason = b.reason
                    /\ c.since_when = b.since_when
                    /\ (c = b \/ c.resolved # Unresolved)
       /\ Cardinality(blockingreasons') >= Cardinality(blockingreasons)
       /\ \A w \in Workers :
            (Ends(w) /\ wreasons[w] # {} /\ ~wbefore[w] /\ wret'[w] = "True") =>
                \A r \in wreasons[w] :
                    \E c \in blockingreasons' \ blockingreasons :
                        /\ c.rfc = wrfc[w] /\ c.reason = r
                        /\ c.resolved = Unresolved
                        /\ \A b \in blockingreasons :
                                (b.rfc = c.rfc /\ b.reason = r) =>
                                    b.since_when < c.since_when
      ]_vars

\* d1 was blocked, unblocked and blocked again for the same reason: the
\* record of the first hold is resolved and a second one is unresolved
C31_Witness ==
    \E b, c \in blockingreasons :
        /\ b.rfc = "d1" /\ c.rfc = "d1"
        /\ b.reason = LABEL_STREAM_HOLD /\ c.reason = LABEL_STREAM_HOLD
        /\ b.resolved # Unresolved
        /\ c.resolved = Unresolved
        /\ b.since_when < c.since_when

\* C32: no call can be stuck for ever.  A reconcile call that waits can
\* take its row lock unless another call on the same document holds it,
\* and that call is in its transaction, which asks for no further lock; a
\* lock is held only by a call in the middle of its transaction on that
\* very document, so calls on different documents never wait for each
\* other and a call that has ended holds nothing.  A poll that has started can take its next step unless
\* another poll holds the lock of the task record, and that poll can take
\* the step that releases it; a poll that has returned does not hold it.
\* No call ever steps back, but for a poll that found no task record and
\* then found the record another poll had created.
C32_NoIndefiniteBlocking ==
    [][/\ \A w \in Workers :
            /\ pc[w] = "waiting" =>
                \/ ENABLED LockAndEvaluate(w)
                \/ \E v \in Workers \ {w} :
                        /\ lock[wrfc[w]] = v
                        /\ wrfc[v] = wrfc[w]
                        /\ pc[v] = "evaluated"
            /\ \A d \in Docs :
                    lock[d] = w <=> (pc[w] = "evaluated" /\ wrfc[w] = d)
            /\ ppc[w] \in {"get", "create", "finally"} =>
                \/ ENABLED (PollGet(w) \/ PollCreate(w) \/ PollFinally(w))
                \/ \E v \in Workers \ {w} :
                        trlock = v /\ ENABLED PollCheck(v)
            /\ ppc[w] = "locked" => ENABLED PollCheck(w)
            /\ ppc[w] = "running" => ENABLED PollQuiet(w)
            /\ ppc[w] = "scan" => ENABLED PollScan(w)
            /\ ppc[w] = "notify" => ENABLED PollNotify(w)
            /\ trlock = w <=> ppc[w] = "locked"
       /\ \A w \in Workers :
            /\ pc'[w] # pc[w] =>
                <<pc[w], pc'[w]>> \in
                    {<<"idle", "waiting">>, <<"done", "waiting">>,
                     <<"waiting", "evaluated">>, <<"waiting", "done">>,
                     <<"evaluated", "done">>}
            /\ ppc'[w] # ppc[w] =>
                \/ <<ppc[w], ppc'[w]>> \in
                        {<<"idle", "get">>, <<"returned", "get">>,
                         <<"get", "locked">>, <<"create", "locked">>,
                         <<"locked", "returned">>, <<"locked", "running">>,
                         <<"running", "finally">>, <<"running", "scan">>,
                         <<"scan", "notify">>, <<"notify", "finally">>,
                         <<"finally", "returned">>}
                \/ ppc[w] = "get" /\ ppc'[w] = "create" /\ taskrun = <<>>
                \/ ppc[w] = "create" /\ ppc'[w] = "get" /\ taskrun # <<>>
       /\ taskrun # <<>> => taskrun' # <<>>]_vars

\* one worker holds the lock of d2 in the middle of its call and polls,
\* while the other is about to lock d1
C32_Witness ==
    /\ pc["w1"] = "evaluated" /\ wrfc["w1"] = "d2" /\ lock["d2"] = "w1"
    /\ pc["w2"] = "waiting" /\ wrfc["w2"] = "d1"
    /\ ppc["w1"] = "running"
    /\ ppc["w2"] = "get"

\* the assignments of d that the hold now in force closed: closed_for_hold
\* later than every blocked assignment of d was set done
ClosedByHold(asg, d) ==
    {c \in assignment_set(asg, d) :
        /\ asg[c].state = CLOSED_FOR_HOLD
        /\ \A b \in assignment_set(asg, d) :
                (asg[b].role = ROLE_BLOCKED /\ asg[b].state = DONE) =>
                    asg[b].hist < asg[c].hist}

C34_RecordsTrackEvaluator ==
    [][\A w \in Workers :
        ( /\ Ends(w) /\ wfresh[w] /\ wret'[w] # "error"
          /\ ActiveBlocked(assignments', wrfc[w]) # {} ) =>
            {r \in BlockingReasonSlugs :
                UnresolvedRecords(blockingreasons', wrfc[w], r) # {}}
                = wreasons[w]
      ]_vars

\* C35: in every state reached from a database without blocked
\* assignments and records by reconcile calls, nothing else writing
\* assignments or records, a document has an unresolved blocking-reason
\* record exactly when it has an active blocked assignment.
C35_RecordsIffBlocked ==
    \A d \in Docs :
        (\E b \in blockingreasons : b.rfc = d /\ b.resolved = Unresolved)
            <=> ActiveBlocked(assignments, d) # {}

\* d1 was blocked, released and blocked again: it has resolved records,
\* an unresolved one and an active blocked assignment
C35_Witness ==
    /\ ActiveBlocked(assignments, "d1") # {}
    /\ \E b \in blockingreasons : b.rfc = "d1" /\ b.resolved = Unresolved
    /\ \E b \in blockingreasons : b.rfc = "d1" /\ b.resolved # Unresolved
    /\ \E i \in assignment_set(assignments, "d1") :
            assignments[i].role = ROLE_BLOCKED /\ assignments[i].state = DONE

\* C36 (as claimed): a reconcile call whose evaluation returned the empty
\* set for a document that had an active blocked assignment does not
\* raise: it returns True and leaves the document without an active
\* blocked assignment, also when the blocked person was given a new
\* in_progress assignment in the role of their closed_for_hold assignment
\* while the document was blocked.
C36_UnblockingCompletes ==
    [][\A w \in Workers :
        (Ends(w) /\ wreasons[w] = {} /\ wbefore[w]) =>
            /\ wret'[w] = "True"
            /\ ActiveBlocked(assignments', wrfc[w]) = {}
      ]_vars

\* the rows of asg that belong to a document other than d, in pk order
RowsOfOthers(asg, d) == SelectSeq(asg, LAMBDA a : a.rfc # d)

\* C37: a reconcile call on document d changes only d's own rows.  The
\* assignments of every other document are the same rows in the same
\* states after the call as before it, and so are the blocking-reason
\* records of every other document, whether the call made a transition,
\* made none or raised, and also when d has a refqueue relationship to
\* the other document.
C37_OnlyOwnRows ==
    [][\A w \in Workers :
        Ends(w) =>
            /\ RowsOfOthers(assignments', wrfc[w]) = RowsOfOthers(assignments, wrfc[w])
            /\ {b \in blockingreasons' : b.rfc # wrfc[w]}
                    = {b \in blockingreasons : b.rfc # wrfc[w]}
      ]_vars

\* d1 has just been blocked for refqueue_first_edit_incomplete, the reason
\* its gate computed from the assignments of its refqueue target d2, and
\* d2 still has its in_progress first_editor assignment
C37_Witness ==
    /\ pc["w1"] = "done" /\ wrfc["w1"] = "d1" /\ wkind["w1"] = "in"
    /\ relateddocs = RefqueueToRfcToBe
    /\ UnresolvedRecords(blockingreasons, "d1", REFQUEUE_FIRST_EDIT_INCOMPLETE) # {}
    /\ ActiveBlocked(assignments, "d1") # {}
    /\ \E i \in assignment_set(assignments, "d2") :
            /\ assignments[i].role = "first_editor"
            /\ assignments[i].state = IN_PROGRESS

\* the worker process that runs the poll is killed (SIGKILL, out of
\* memory, host failure) after the check-and-set was committed and before
\* the save of the finally block: nothing of the function runs any more,
\* the record keeps what was committed, and the worker pool can start the
\* task again
PollKill(w) ==
    /\ ppc[w] \in {"running", "scan", "notify", "finally"}
    /\ ppc' = [ppc EXCEPT ![w] = "idle"]
    /\ ppath' = [ppath EXCEPT ![w] = Null]
    /\ ptask' = [ptask EXCEPT ![w] = TaskRun(0, FALSE)]
    /\ pfound' = [pfound EXCEPT ![w] = <<>>]
    /\ pqueue' = [pqueue EXCEPT ![w] = {}]
    /\ UNCHANGED <<taskrun, trlock, history, now, sinkurl, sent, pcct>>
    /\ UNCHANGED <<dbvars, callvars, evalResult, batchvars>>
    /\ UNCHANGED indexvars

\* independent worker processes poll at the same time and may be killed
NextPollKill ==
    \/ NextPollRace
    \/ \E w \in Workers : PollKill(w)

SpecPollKill == InitPollRace /\ [][NextPollKill]_vars

\* C38 (as claimed): the single-flight flag is never orphaned.  In every
\* reachable state, also after a worker was killed, is_running = true in
\* the task record implies that some poll is executing between its
\* check-and-set and its release.
C38_FlagNeverOrphaned ==
    (taskrun # <<>> /\ taskrun[1].is_running) => \E w \in Workers : InSection(w)

----------------------------------------------------------------------------
(* rfc-index.xml: load_bcp_xml_index_entries of rpc/rfcindex.py *)

\* a SubseriesMember row
SubseriesMember(d, type, n) == [rfc_to_be |-> d, type |-> type, number |-> n]

\* the subseries of the members in the table
SubseriesTypes == {"bcp", "fyi"}

\* the rows the table may hold
SubseriesMemberChoices ==
    {SubseriesMember(d, type, n) :
        d \in Docs, type \in SubseriesTypes, n \in 1..MaxNumber}

\* the decimal digits of n
RECURSIVE Digits(_)
Digits(n) == IF n < 10 THEN <<n>> ELSE Append(Digits(n \div 10), n % 10)

\* f"{n:04d}": the digits of n, padded with zeros to a width of four
Format04d(n) ==
    LET ds == Digits(n)
    IN  IF Len(ds) >= 4 THEN ds ELSE [i \in 1..(4 - Len(ds)) |-> 0] \o ds

\* the text of a doc-id element: f"BCP{n:04d}", f"RFC{n:04d}"
DocId(prefix, n) == [prefix |-> prefix, digits |-> Format04d(n)]

\* range(a, b): a, a + 1, ..., b - 1
range(a, b) == [i \in 1..(b - a) |-> a + i - 1]

\* SubseriesMember.objects.filter(type_id="bcp")
bcp_members(rows) == {m \in rows : m.type = "bcp"}

\* .order_by("-number").first().number of a queryset that is not empty
highest_bcp_number(rows) ==
    CHOOSE n \in {m.number : m \in bcp_members(rows)} :
        \A m \in bcp_members(rows) : m.number <= n

\* a bcp-entry element: its doc-id and the doc-ids of its is-also child,
\* <<>> when the entry has no is-also child
BcpEntry(n, also) == [tag |-> "bcp-entry", doc_id |-> DocId("BCP", n), is_also |-> also]

\* load_bcp_xml_index_entries(rfc_index): the children of rfc_index when
\* the function ends, and whether it raised (first() is None when there
\* is no BCP member); the querysets have no order_by and yield the BCP
\* members in the given order
load_bcp_xml_index_entries(index, rows, order) ==
    IF bcp_members(rows) = {}
    THEN [raised |-> TRUE, rfc_index |-> index]
    ELSE LET numbers == range(1, highest_bcp_number(rows))
             entry(k) ==
                LET subseries_members ==
                        SelectSeq(order, LAMBDA m : m.number = numbers[k])
                IN  BcpEntry(numbers[k],
                             [i \in DOMAIN subseries_members |->
                                DocId("RFC", RfcToBePk(subseries_members[i].rfc_to_be))])
         IN  [raised |-> FALSE,
              rfc_index |-> index \o [k \in DOMAIN numbers |-> entry(k)]]

\* the table holds any rows of the BCP and FYI subseries
InitIndex ==
    /\ assignments = <<>>
    /\ relateddocs = NoRelated
    /\ catalog = BlockingReasonSlugs
    /\ clock = 0
    /\ edits = 0
    /\ labels = [d \in Docs |-> {}]
    /\ actionholders = {}
    /\ finalapprovals = {}
    /\ blockingreasons = {}
    /\ disposition = [d \in Docs |-> "in_progress"]
    /\ IdleCalls
    /\ NoEval
    /\ NoPoll
    /\ batchState = "idle" /\ batchTodo = <<>> /\ batchSeen = <<>>
    /\ subseries \in {rows \in SUBSET SubseriesMemberChoices :
                        Cardinality(rows) <= MaxMembers}
    /\ rfc_index = <<>>
    /\ indexstate = "idle"

\* load_bcp_xml_index_entries(rfc_index) is called on the empty element
LoadBcp ==
    /\ indexstate = "idle"
    /\ \E order \in RowOrders(bcp_members(subseries)) :
        LET loaded == load_bcp_xml_index_entries(rfc_index, subseries, order)
        IN  /\ rfc_index' = loaded.rfc_index
            /\ indexstate' = IF loaded.raised THEN "raised" ELSE "loaded"
    /\ UNCHANGED subseries
    /\ UNCHANGED <<dbvars, callvars, evalResult, batchvars, pollvars>>

NextIndex == LoadBcp

SpecIndex == InitIndex /\ [][NextIndex]_vars

\* C39 (as claimed): when load_bcp_xml_index_entries has run, rfc_index
\* holds exactly one bcp-entry element for every BCP number from 1 up to
\* and including the highest BCP number among the subseries members, in
\* ascending order.
C39_EntryForEveryBcpNumber ==
    indexstate = "loaded" =>
        /\ Len(rfc_index) = highest_bcp_number(subseries)
        /\ \A n \in 1..highest_bcp_number(subseries) :
                /\ rfc_index[n].tag = "bcp-entry"
                /\ rfc_index[n].doc_id = DocId("BCP", n)

====
